---- MODULE Spec2Model ----
(***************************************************************************)
(* Model of sst-config-generator: the SST configuration generator, the     *)
(* AWS deploy bot and its deploy-direct handler with the progress stream,  *)
(* the client consuming that stream, and the HTTP API handlers with the    *)
(* in-memory saved-configuration store.                                    *)
(*                                                                         *)
(* Spec       one deploy-direct request at a time: client, handler, bot.   *)
(* SpecApi    the request/response handlers that keep no state.            *)
(* SpecStore  the configs handler and its savedConfigs store.              *)
(***************************************************************************)
EXTENDS Integers, Sequences, FiniteSets, TLC

(***************************************************************************)
(* Values                                                                  *)
(***************************************************************************)

\* JavaScript's undefined (an absent optional field).
Undefined == "<undefined>"

\* What a template literal `${v}` yields: the text "undefined" for undefined.
Interp(v) == IF v = Undefined THEN "undefined" ELSE v

\* JavaScript truthiness of a string-or-undefined value.
Truthy(v) == v # Undefined /\ v # ""

\* A line or block the template leaves out.
Absent == "<absent>"

(***************************************************************************)
(* SSTGenerator (src/lib/sst-generator.ts).  The emitted file is a fixed   *)
(* template; it is modelled by the values of its interpolated slots and    *)
(* the presence of its optional blocks.                                    *)
(***************************************************************************)

\* Math.round(baseCost * 0.8) and Math.round(baseCost * 1.5) on baseCost
\* given in halves (b2 = 2 * baseCost); Math.round rounds .5 upwards.
estimateCost(config) ==
  LET worldwide == config.userDistribution = "worldwide"
      base2 == IF config.projectType = "STATIC" THEN (IF worldwide THEN 10 ELSE 2)
               ELSE IF config.projectType = "CSR" THEN (IF worldwide THEN 16 ELSE 4)
               ELSE (IF worldwide THEN 30 ELSE 16)
      b2 == IF config.customDomain.enabled THEN base2 + 1 ELSE base2
      low == (4 * b2 + 5) \div 10
      lowEnd == IF low < 1 THEN 1 ELSE low
      highEnd == (3 * b2 + 2) \div 4
  IN  <<lowEnd, highEnd>>

ssrConstructType(framework) ==
  IF framework = "Remix" THEN "RemixSite"
  ELSE IF framework = "SvelteKit" THEN "SvelteKitSite"
  ELSE IF framework = "Nuxt" THEN "SvelteKitSite"
  ELSE "NextjsSite"

generateSSRConfig(config) ==
  LET constructType == ssrConstructType(config.framework)
      needsGlobalCDN == config.userDistribution = "worldwide"
  IN  [ importConstruct |-> constructType,
        name            |-> Interp(config.projectName),
        region          |-> Interp(config.region),
        construct       |-> constructType,
        constructId     |-> Interp(config.projectName),
        buildCommand    |-> Absent,
        buildOutput     |-> Absent,
        domainName      |-> IF config.customDomain.enabled
                            THEN Interp(config.customDomain.domain) ELSE Absent,
        cdn             |-> IF needsGlobalCDN THEN "edge" ELSE Absent,
        summaryType     |-> <<Interp(config.framework), " (Server-Side Rendered)">>,
        summaryCDN      |-> needsGlobalCDN,
        summaryDomain   |-> IF config.customDomain.enabled
                            THEN <<Interp(config.customDomain.domain)>>
                            ELSE <<"Default AWS URL">>,
        cost            |-> estimateCost(config) ]

generateCSRConfig(config) ==
  LET needsGlobalCDN == config.userDistribution = "worldwide"
  IN  [ importConstruct |-> "StaticSite",
        name            |-> Interp(config.projectName),
        region          |-> Interp(config.region),
        construct       |-> "StaticSite",
        constructId     |-> Interp(config.projectName),
        buildCommand    |-> Interp(config.buildCommand),
        buildOutput     |-> Interp(config.outputDir),
        domainName      |-> IF config.customDomain.enabled
                            THEN Interp(config.customDomain.domain) ELSE Absent,
        cdn             |-> IF needsGlobalCDN THEN "cloudFrontDistribution-csr" ELSE Absent,
        summaryType     |-> <<Interp(config.framework), " (Client-Side Rendered)">>,
        summaryCDN      |-> needsGlobalCDN,
        summaryDomain   |-> IF config.customDomain.enabled
                            THEN <<Interp(config.customDomain.domain)>>
                            ELSE <<"Default AWS URL">>,
        cost            |-> estimateCost(config) ]

\* Variant: the static template carries a fixed region.
generateStaticConfig_fixedRegion(config) ==
  [generateCSRConfig(config) EXCEPT !.region = "us-east-1"]

generateStaticConfig(config) ==
  LET needsGlobalCDN == config.userDistribution = "worldwide"
      hasBuildProcess == Truthy(config.buildCommand) /\ config.buildCommand # "null"
  IN  [ importConstruct |-> "StaticSite",
        name            |-> Interp(config.projectName),
        region          |-> Interp(config.region),
        construct       |-> "StaticSite",
        constructId     |-> Interp(config.projectName),
        buildCommand    |-> IF hasBuildProcess THEN Interp(config.buildCommand) ELSE Absent,
        buildOutput     |-> Interp(config.outputDir),
        domainName      |-> IF config.customDomain.enabled
                            THEN Interp(config.customDomain.domain) ELSE Absent,
        cdn             |-> IF needsGlobalCDN THEN "cloudFrontDistribution-static" ELSE Absent,
        summaryType     |-> IF hasBuildProcess THEN <<"Generated Static Site">>
                            ELSE <<"Pure HTML/CSS">>,
        summaryCDN      |-> needsGlobalCDN,
        summaryDomain   |-> IF config.customDomain.enabled
                            THEN <<Interp(config.customDomain.domain), " (with free SSL)">>
                            ELSE <<"Default AWS URL">>,
        cost            |-> estimateCost(config) ]

\* Variant: the project type is not looked at.
generateSSTConfig_alwaysStatic(config) == generateStaticConfig(config)

generateSSTConfig(config) ==
  IF config.projectType = "SSR" THEN generateSSRConfig(config)
  ELSE IF config.projectType = "CSR" THEN generateCSRConfig(config)
  ELSE generateStaticConfig(config)

\* The package.json the generator emits depends on the project name only.
generatePackageJson(config) ==
  [ name |-> config.projectName, version |-> "0.1.0",
    scripts |-> {"sst:dev", "sst:build", "sst:deploy", "sst:deploy:prod", "sst:remove"},
    devDependencies |-> {"sst"} ]

\* The files object, in insertion order (Object.entries order).
generateConfig(config) ==
  << [filename |-> "sst.config.ts", content |-> generateSSTConfig(config)],
     [filename |-> "package.json",  content |-> generatePackageJson(config)] >>


(***************************************************************************)
(* State                                                                   *)
(***************************************************************************)
VARIABLES
  client,        \* ConfigResult's deploymentState and its position in the stream
  req,           \* the deploy-direct request in flight
  resp,          \* the HTTP response: status written (0: none yet) and whether ended
  stream,        \* the frames written to the response body, in order
  pc,            \* position of the handler / bot for the request in flight
  bot,           \* AWSDeployBot's fields
  fs,            \* the scratch clone directory on disk
  analysis,      \* deploy()'s local `analysis`
  deploymentUrl, \* deploy()'s local `deploymentUrl`
  failing,       \* deploy() is in its catch block
  thrown,        \* the message of the Error thrown in deploy()'s try block
  outcome,       \* bot.deploy(): "none", "resolved" or "rejected"
  steps,         \* history: the pipeline steps started, with the stream length then
  execLog,       \* history: every execSync invocation and whether it succeeded
  deployOutput,  \* history: exit status and SiteUrl marker of `sst deploy`
  savedConfigs,  \* the configs endpoint's module-level store, by account email
  now,           \* the wall clock read by Date.now()
  apiReq,        \* the API request handled last
  apiResp,       \* its response
  work,          \* history: what the handler did for that request
  lastSave,      \* history: per account, the last save since the process started
  saveLog,       \* history: per account, the entries its saves returned since then
  upstream,      \* history: what the external hosts answered during that request
  wizard,        \* the Home page's state, its mounted components and fetches in flight
  pool           \* deployment runs of one server process and its temporary directory

clientVars == <<client>>
serverVars == <<req, resp, stream, pc, bot, fs, analysis, deploymentUrl, failing,
                thrown, outcome>>
histVars   == <<steps, execLog, deployOutput>>
deployVars == <<client, req, resp, stream, pc, bot, fs, analysis, deploymentUrl,
                failing, thrown, outcome, steps, execLog, deployOutput>>
apiVars    == <<savedConfigs, now, apiReq, apiResp, work, lastSave, saveLog, upstream>>
pageVars   == <<wizard, pool>>
vars       == <<client, req, resp, stream, pc, bot, fs, analysis, deploymentUrl,
                failing, thrown, outcome, steps, execLog, deployOutput,
                savedConfigs, now, apiReq, apiResp, work, lastSave, saveLog, upstream,
                wizard, pool>>

(***************************************************************************)
(* Inputs of a deployment                                                  *)
(***************************************************************************)

NoUrl == <<>>

\* An optional value: <<>> when absent, <<x>> when present.
None == <<>>
Some(x) == <<x>>

NoCloneUrl == [last |-> Undefined, git |-> FALSE]

\* A URL, by what extractProjectName reads of it: its last path segment,
\* with or without the ".git" suffix.
Repos ==
  { [name |-> "my-app", clone_url |-> [last |-> "my-app", git |-> TRUE],
     html_url |-> [last |-> "my-app", git |-> FALSE]],
    [name |-> "site", clone_url |-> NoCloneUrl,
     html_url |-> [last |-> "site", git |-> FALSE]] }

\* DeploymentConfigs the wizard can send with a deploy request.
Configs ==
  { [projectName |-> "my-app", framework |-> "Next.js", projectType |-> "SSR",
     region |-> "us-east-1", customDomain |-> [enabled |-> FALSE, domain |-> Undefined],
     userDistribution |-> "worldwide", buildCommand |-> "npm run build",
     outputDir |-> ".next"],
    [projectName |-> "my-app", framework |-> "React SPA", projectType |-> "CSR",
     region |-> "eu-west-1", customDomain |-> [enabled |-> TRUE, domain |-> "app.example.org"],
     userDistribution |-> "single", buildCommand |-> "npm run build",
     outputDir |-> "build"],
    [projectName |-> "site", framework |-> "Static HTML", projectType |-> "STATIC",
     region |-> "us-east-1", customDomain |-> [enabled |-> FALSE, domain |-> Undefined],
     userDistribution |-> "worldwide", buildCommand |-> Undefined,
     outputDir |-> "."],
    [projectName |-> "site", framework |-> "Static HTML", projectType |-> "STATIC",
     region |-> "ap-south-1", customDomain |-> [enabled |-> FALSE, domain |-> Undefined],
     userDistribution |-> "single", buildCommand |-> Undefined,
     outputDir |-> "."] }

\* What can be found at <tempDir>/package.json after a clone.
NoManifest      == [kind |-> "none",    deps |-> {}, build |-> Undefined]
InvalidManifest == [kind |-> "invalid", deps |-> {}, build |-> Undefined]
DepSets ==
  { {}, {"next", "react", "react-dom"}, {"react", "react-dom"}, {"react"},
    {"vue"}, {"@angular/core"}, {"nuxt", "vue"} }
Manifests ==
  { [kind |-> "json", deps |-> d, build |-> b] :
      d \in DepSets, b \in {Undefined, "eleventy"} }
ClonedManifests == Manifests \cup {NoManifest, InvalidManifest}

\* `sst deploy`: exit status and the URL after a "SiteUrl:" marker, if any.
DeployOutputs ==
  { [exit |-> e, siteUrl |-> u] : e \in {0, 1},
                                  u \in {NoUrl, <<"https://d111.cloudfront.net">>} }
NoOutput == [exit |-> 0 - 1, siteUrl |-> NoUrl]

PrereqChecks ==
  << "git --version", "node --version", "npm --version", "aws --version",
     "aws sts get-caller-identity" >>
PrereqNames == << "Git", "Node.js", "npm", "AWS CLI", "AWS credentials" >>

(***************************************************************************)
(* The progress stream (src/unnamed/part_004)                              *)
(***************************************************************************)

\* progressCallback: one "data:" frame; JSON.stringify drops an undefined
\* deploymentUrl.
progressCallbackWith(s, progress, step, message, url) ==
  Append(s, [type |-> "progress", progress |-> progress, step |-> step,
             message |-> message, deploymentUrl |-> url])

\* A message whose text does not depend on any error.
Literal == <<"literal">>

progressCallback(s, progress, step, url) ==
  progressCallbackWith(s, progress, step, Literal, url)

\* sendProgress with the handler's callback installed.
sendProgress(s, progress, step) == progressCallback(s, progress, step, NoUrl)

\* A "Deployment failed" frame: progress 0 and a message built from an error.
sendFailure(s, message) ==
  progressCallbackWith(s, 0, "Deployment failed", message, NoUrl)

\* What execSync's Error says after "Command failed: <cmd>": the output of
\* the command.
CommandErrors == {"fatal: repository not found", "connect ETIMEDOUT"}

\* res.write('data: {"type": ...}')
Sentinel(type) ==
  [type |-> type, progress |-> Undefined, step |-> Undefined, message |-> <<>>,
   deploymentUrl |-> NoUrl]

\* One execSync call: the command, whether it exited 0, the step that made it.
Exec(step, cmd, ok) == [step |-> step, cmd |-> cmd, ok |-> ok]
\* A step of the run: the stream length when it started and when it returned
\* or threw.
Step(name) == [name |-> name, at |-> Len(stream), end |-> Len(stream')]


(***************************************************************************)
(* AWSDeployBot (src/unnamed/part_003)                                     *)
(***************************************************************************)

\* url.split('/').pop()?.replace('.git', '') || 'unknown-project'
extractProjectName(url) ==
  IF url.last = Undefined \/ url.last = "" THEN "unknown-project" ELSE url.last

NewBot == [repoUrl |-> NoCloneUrl, projectName |-> Undefined,
           deploymentStage |-> "development", tempDir |-> Undefined]
NoDir == [exists |-> FALSE, manifest |-> NoManifest, sstConfig |-> None,
          sstScripts |-> FALSE]

\* deploy(), lines 22-28: the fields are set and the first frame is sent.
deploy ==
  /\ pc = "deploy"
  /\ LET repoUrl == IF req[1].repository.clone_url.last # Undefined
                    THEN req[1].repository.clone_url
                    ELSE req[1].repository.html_url
     IN  bot' = [bot EXCEPT !.repoUrl = repoUrl,
                            !.deploymentStage = "production",
                            !.projectName = extractProjectName(repoUrl)]
  /\ stream' = sendProgress(stream, 0, "Starting deployment")
  /\ pc' = "checkPrerequisites"
  /\ UNCHANGED <<client, req, resp, fs, analysis, deploymentUrl, failing, outcome,
                 steps, execLog, deployOutput>>
  /\ UNCHANGED thrown
  /\ UNCHANGED apiVars /\ UNCHANGED pageVars

\* checkPrerequisites: the first k checks pass; check k+1, if any, fails and
\* throws.
checkPrerequisites ==
  /\ pc = "checkPrerequisites"
  /\ \E k \in 0..Len(PrereqChecks) :
       LET passed == [i \in 1..k |-> Exec("checkPrerequisites", PrereqChecks[i], TRUE)]
           frames == [i \in 1..k |->
                        [type |-> "progress", progress |-> 5,
                         step |-> "Checking prerequisites", message |-> Literal,
                         deploymentUrl |-> NoUrl]]
           allOk  == k = Len(PrereqChecks)
       IN  /\ stream' = sendProgress(stream, 5, "Checking prerequisites") \o frames
           /\ execLog' = execLog \o passed \o
                (IF allOk THEN <<>>
                 ELSE <<Exec("checkPrerequisites", PrereqChecks[k + 1], FALSE)>>)
           /\ pc' = IF allOk THEN "cloneRepository" ELSE "catch"
           /\ thrown' = IF allOk THEN thrown
                         ELSE Some(<<PrereqNames[k + 1], " is not installed or configured">>)
  /\ steps' = Append(steps, Step("checkPrerequisites"))
  /\ UNCHANGED <<client, req, resp, bot, fs, analysis, deploymentUrl, failing, outcome,
                 deployOutput>>
  /\ UNCHANGED apiVars /\ UNCHANGED pageVars

\* cloneRepository: tempDir is set, then git clone runs.  A failed clone may
\* or may not leave the target directory behind.
cloneRepository ==
  /\ pc = "cloneRepository"
  /\ bot' = [bot EXCEPT !.tempDir = "aws-deploy-<now>"]
  /\ \/ \E m \in ClonedManifests :
          /\ execLog' = Append(execLog, Exec("cloneRepository", "git clone", TRUE))
          /\ fs' = [NoDir EXCEPT !.exists = TRUE, !.manifest = m]
          /\ stream' = sendProgress(sendProgress(stream, 15, "Cloning repository"),
                                    25, "Repository cloned")
          /\ pc' = "detectProjectType"
          /\ UNCHANGED thrown
     \/ \E left \in BOOLEAN, output \in CommandErrors :
          /\ execLog' = Append(execLog, Exec("cloneRepository", "git clone", FALSE))
          /\ fs' = [NoDir EXCEPT !.exists = left]
          /\ stream' = sendProgress(stream, 15, "Cloning repository")
          /\ pc' = "catch"
          /\ thrown' = Some(<<"Failed to clone repository: ",
                               "Command failed: git clone", output>>)
  /\ steps' = Append(steps, Step("cloneRepository"))
  /\ UNCHANGED <<client, req, resp, analysis, deploymentUrl, failing, outcome,
                 deployOutput>>
  /\ UNCHANGED apiVars /\ UNCHANGED pageVars

\* The rule table of detectProjectType, on a parsed manifest.
detectFromManifest(m) ==
  IF "next" \in m.deps
    THEN [type |-> "SSR", framework |-> "Next.js", buildCommand |-> "npm run build",
          outputDir |-> ".next", dependencies |-> m.deps]
  ELSE IF "react" \in m.deps /\ "react-dom" \in m.deps
    THEN [type |-> "CSR", framework |-> "React SPA", buildCommand |-> "npm run build",
          outputDir |-> "build", dependencies |-> m.deps]
  ELSE IF "vue" \in m.deps
    THEN [type |-> "CSR", framework |-> "Vue SPA", buildCommand |-> "npm run build",
          outputDir |-> "dist", dependencies |-> m.deps]
  ELSE IF "@angular/core" \in m.deps
    THEN [type |-> "CSR", framework |-> "Angular", buildCommand |-> "ng build",
          outputDir |-> "dist", dependencies |-> m.deps]
  ELSE [type |-> "STATIC", framework |-> "Static Site",
        buildCommand |-> IF Truthy(m.build) THEN m.build ELSE Undefined,
        outputDir |-> ".", dependencies |-> m.deps]

\* Variant: the manifest-less analysis names a build command.
StaticHtmlAnalysis_withBuild ==
  [type |-> "STATIC", framework |-> "Static HTML", buildCommand |-> "npm run build",
   outputDir |-> ".", dependencies |-> {}]

\* The analysis returned when there is no package.json.
StaticHtmlAnalysis ==
  [type |-> "STATIC", framework |-> "Static HTML", buildCommand |-> Undefined,
   outputDir |-> ".", dependencies |-> {}]

\* detectProjectType: JSON.parse throws on a manifest that is not JSON.
detectProjectType ==
  /\ pc = "detectProjectType"
  /\ IF bot.tempDir = Undefined
       THEN /\ stream' = sendProgress(stream, 30, "Analyzing project")
            /\ pc' = "catch"
            /\ thrown' = Some(<<"No temp directory available">>)
            /\ UNCHANGED analysis
     ELSE IF fs.manifest.kind = "none"
       THEN /\ analysis' = Some(StaticHtmlAnalysis)
            /\ stream' = sendProgress(sendProgress(stream, 30, "Analyzing project"),
                                      35, "Project analyzed")
            /\ pc' = "installDependencies"
            /\ UNCHANGED thrown
     ELSE IF fs.manifest.kind = "invalid"
       THEN /\ stream' = sendProgress(stream, 30, "Analyzing project")
            /\ pc' = "catch"
            /\ thrown' = Some(<<"SyntaxError: Unexpected token in JSON">>)
            /\ UNCHANGED analysis
     ELSE /\ analysis' = Some(detectFromManifest(fs.manifest))
          /\ stream' = sendProgress(sendProgress(stream, 30, "Analyzing project"),
                                    35, "Project analyzed")
          /\ pc' = "installDependencies"
          /\ UNCHANGED thrown
  /\ steps' = Append(steps, Step("detectProjectType"))
  /\ UNCHANGED <<client, req, resp, bot, fs, deploymentUrl, failing, outcome,
                 execLog, deployOutput>>
  /\ UNCHANGED apiVars /\ UNCHANGED pageVars

\* Variant: the skip branch returns without reporting any progress.
skipDependencies_silent(s) == s

\* Line 174: the frame sent when there is no package.json to install from.
skipDependencies(s) == sendProgress(s, 45, "Skipping dependencies")

\* installDependencies: skipped without a manifest; otherwise npm install,
\* then npm install -g sst@latest, the first failure throwing.
installDependencies ==
  /\ pc = "installDependencies"
  /\ IF bot.tempDir = Undefined
       THEN /\ pc' = "catch"
            /\ thrown' = Some(<<"No temp directory available">>)
            /\ UNCHANGED <<stream, execLog>>
     ELSE IF fs.manifest.kind = "none"
       THEN /\ stream' = skipDependencies(stream)
            /\ pc' = "addSSTConfig"
            /\ UNCHANGED <<execLog, thrown>>
     ELSE LET s40 == sendProgress(stream, 40, "Installing dependencies")
              s42 == sendProgress(s40, 42, "Installing dependencies")
              s45 == sendProgress(s42, 45, "Installing SST")
              s50 == sendProgress(s45, 50, "Dependencies installed")
          IN  \/ \E output \in CommandErrors :
                   /\ execLog' = Append(execLog,
                                        Exec("installDependencies", "npm install", FALSE))
                   /\ stream' = s42
                   /\ pc' = "catch"
                   /\ thrown' = Some(<<"Failed to install dependencies: ",
                                        "Command failed: npm install", output>>)
              \/ \E output \in CommandErrors :
                   /\ execLog' = execLog \o <<Exec("installDependencies", "npm install", TRUE),
                                              Exec("installDependencies", "npm install -g sst@latest", FALSE)>>
                   /\ stream' = s45
                   /\ pc' = "catch"
                   /\ thrown' = Some(<<"Failed to install dependencies: ",
                                        "Command failed: npm install -g sst@latest", output>>)
              \/ /\ execLog' = execLog \o <<Exec("installDependencies", "npm install", TRUE),
                                            Exec("installDependencies", "npm install -g sst@latest", TRUE)>>
                 /\ stream' = s50
                 /\ pc' = "addSSTConfig"
                 /\ UNCHANGED thrown
  /\ steps' = Append(steps, Step("installDependencies"))
  /\ UNCHANGED <<client, req, resp, bot, fs, analysis, deploymentUrl, failing, outcome,
                 deployOutput>>
  /\ UNCHANGED apiVars /\ UNCHANGED pageVars

\* The DeploymentConfig addSSTConfig builds from the bot's own analysis.
botDeploymentConfig(projectName, a) ==
  [projectName |-> projectName, framework |-> a.framework, projectType |-> a.type,
   region |-> "us-east-1", customDomain |-> [enabled |-> FALSE, domain |-> Undefined],
   userDistribution |-> "worldwide", buildCommand |-> a.buildCommand,
   outputDir |-> a.outputDir]

\* addSSTConfig: the generated sst.config.ts is written into the scratch
\* directory and an existing package.json gets the SST scripts; either write
\* may fail and throw, the second one after the first has been done.
addSSTConfig ==
  /\ pc = "addSSTConfig"
  /\ IF bot.tempDir = Undefined \/ ~Truthy(bot.projectName)
       THEN /\ stream' = sendProgress(stream, 55, "Generating SST config")
            /\ pc' = "catch"
            /\ thrown' = Some(<<"Missing required data">>)
            /\ UNCHANGED fs
     ELSE \E written \in {"none", "config", "both"} :
          LET deploymentConfig == botDeploymentConfig(bot.projectName, analysis[1])
              sstConfig == generateConfig(deploymentConfig)[1].content
              hasManifest == fs.manifest.kind # "none"
          IN  /\ (written = "config") => hasManifest
              /\ fs' = [fs EXCEPT !.sstConfig = IF written = "none" THEN None
                                                ELSE Some(sstConfig),
                                  !.sstScripts = (written = "both" /\ hasManifest)]
              /\ IF written = "both"
                   THEN /\ stream' = sendProgress(
                                       sendProgress(stream, 55, "Generating SST config"),
                                       65, "SST config added")
                        /\ pc' = "deployToAWS"
                        /\ UNCHANGED thrown
                 ELSE   /\ stream' = sendProgress(stream, 55, "Generating SST config")
                        /\ pc' = "catch"
                        /\ thrown' = Some(<<"EACCES: permission denied, open">>)
  /\ steps' = Append(steps, Step("addSSTConfig"))
  /\ UNCHANGED <<client, req, resp, bot, analysis, deploymentUrl, failing, outcome,
                 execLog, deployOutput>>
  /\ UNCHANGED apiVars /\ UNCHANGED pageVars

\* deployToAWS: a failing `sst bootstrap` is swallowed; `sst deploy` throws on
\* a non-zero exit; without a SiteUrl marker the URL falls back to a made-up
\* one.
deployToAWS ==
  /\ pc = "deployToAWS"
  /\ IF bot.tempDir = Undefined
       THEN /\ pc' = "catch"
            /\ thrown' = Some(<<"No temp directory available">>)
            /\ UNCHANGED <<stream, execLog, deployOutput, deploymentUrl>>
     ELSE \E bootstrapOk \in BOOLEAN, out \in DeployOutputs :
          LET s72 == sendProgress(sendProgress(stream, 70, "Deploying to AWS"),
                                  72, "Deploying to AWS")
              s75 == sendProgress(s72, 75, "Bootstrapping SST")
              sb  == IF bootstrapOk THEN s75 ELSE sendProgress(s75, 75, "SST ready")
              s80 == sendProgress(sb, 80, "Deploying resources")
              urlMatch == out.siteUrl # NoUrl
          IN  /\ execLog' = execLog \o <<Exec("deployToAWS", "sst bootstrap", bootstrapOk),
                                         Exec("deployToAWS", "sst deploy", out.exit = 0)>>
              /\ deployOutput' = out
              /\ IF out.exit = 0
                   THEN /\ deploymentUrl' =
                             IF urlMatch THEN out.siteUrl
                             ELSE <<"https://", bot.projectName, "-",
                                    bot.deploymentStage, ".example.com">>
                        /\ stream' = sendProgress(s80, 95, "Deployment successful")
                        /\ pc' = "cleanup"
                        /\ UNCHANGED thrown
                 ELSE \E output \in CommandErrors :
                        /\ stream' = s80
                        /\ pc' = "catch"
                        /\ thrown' = Some(<<"Deployment failed: ",
                                             "Command failed: sst deploy", output>>)
                        /\ UNCHANGED deploymentUrl
  /\ steps' = Append(steps, Step("deployToAWS"))
  /\ UNCHANGED <<client, req, resp, bot, fs, analysis, failing, outcome>>
  /\ UNCHANGED apiVars /\ UNCHANGED pageVars

\* cleanup: only when tempDir is set and exists; a failing rm is logged and
\* swallowed.  Called from both the try block (line 37) and the catch block
\* (line 45, followed by the rethrow of line 46).
cleanup ==
  /\ pc = "cleanup"
  /\ IF bot.tempDir # Undefined /\ fs.exists
       THEN \E rmOk \in BOOLEAN :
              /\ execLog' = Append(execLog, Exec("cleanup", "rm -rf", rmOk))
              /\ fs' = IF rmOk THEN NoDir ELSE fs
              /\ stream' = IF rmOk
                             THEN sendProgress(sendProgress(stream, 98, "Cleaning up"),
                                               100, "Cleanup complete")
                           ELSE sendProgress(stream, 98, "Cleaning up")
     ELSE UNCHANGED <<execLog, fs, stream>>
  /\ IF failing
       THEN outcome' = "rejected" /\ pc' = "handlerCatch"
     ELSE pc' = "deployReturn" /\ UNCHANGED outcome
  /\ steps' = Append(steps, Step("cleanup"))
  /\ UNCHANGED <<client, req, resp, bot, analysis, deploymentUrl, failing, deployOutput>>
  /\ UNCHANGED thrown
  /\ UNCHANGED apiVars /\ UNCHANGED pageVars

\* deploy(), lines 39-41: the final bot frame carries the URL; deploy resolves.
deployReturn ==
  /\ pc = "deployReturn"
  /\ stream' = progressCallback(stream, 100, "Deployment complete", deploymentUrl)
  /\ outcome' = "resolved"
  /\ pc' = "handlerComplete"
  /\ UNCHANGED <<client, req, resp, bot, fs, analysis, deploymentUrl, failing,
                 steps, execLog, deployOutput>>
  /\ UNCHANGED thrown
  /\ UNCHANGED apiVars /\ UNCHANGED pageVars

\* Variant: the catch block rethrows without running cleanup.
deployCatch_noCleanup ==
  /\ pc = "catch"
  /\ stream' = sendFailure(stream, thrown[1])
  /\ failing' = TRUE
  /\ outcome' = "rejected"
  /\ pc' = "handlerCatch"
  /\ UNCHANGED <<client, req, resp, bot, fs, analysis, deploymentUrl,
                 steps, execLog, deployOutput>>
  /\ UNCHANGED thrown
  /\ UNCHANGED apiVars /\ UNCHANGED pageVars

\* deploy(), line 44: the catch block reports the failure with the Error's
\* message (after a cross mark), then runs cleanup.
deployCatch ==
  /\ pc = "catch"
  /\ stream' = sendFailure(stream, thrown[1])
  /\ failing' = TRUE
  /\ pc' = "cleanup"
  /\ UNCHANGED <<client, req, resp, bot, fs, analysis, deploymentUrl, outcome,
                 steps, execLog, deployOutput>>
  /\ UNCHANGED thrown
  /\ UNCHANGED apiVars /\ UNCHANGED pageVars

(***************************************************************************)
(* The deploy-direct handler (src/unnamed/part_004)                        *)
(***************************************************************************)

\* Lines 7-15: what the handler answers before doing anything else.
deployDirectGate(method, session) ==
  IF method # "POST" THEN 405 ELSE IF ~session THEN 401 ELSE 200

\* Lines 6-50: the method and session checks, the stream's headers, a new bot.
handler ==
  /\ pc = "handler"
  /\ LET status == deployDirectGate(req[1].method, req[1].session)
     IN  IF status = 200 /\ req[1].body = "null"
           \* line 18 throws on a null body; lines 66-69 answer 500
           THEN /\ resp' = [status |-> 500, ended |-> TRUE]
                /\ pc' = "done"
                /\ UNCHANGED bot
         ELSE IF status = 200
           THEN /\ resp' = [status |-> 200, ended |-> FALSE]
                /\ bot' = NewBot
                /\ pc' = "deploy"
         ELSE   /\ resp' = [status |-> status, ended |-> TRUE]
                /\ pc' = "done"
                /\ UNCHANGED bot
  /\ UNCHANGED <<client, req, stream, fs, analysis, deploymentUrl, failing, outcome,
                 steps, execLog, deployOutput>>
  /\ UNCHANGED thrown
  /\ UNCHANGED apiVars /\ UNCHANGED pageVars

\* Variant: the completion sentinel is written before the final frame.
handlerComplete_sentinelFirst ==
  /\ pc = "handlerComplete"
  /\ stream' = progressCallback(Append(stream, Sentinel("complete")),
                                100, "Deployment complete!", deploymentUrl)
  /\ resp' = [resp EXCEPT !.ended = TRUE]
  /\ pc' = "done"
  /\ UNCHANGED <<client, req, bot, fs, analysis, deploymentUrl, failing, outcome,
                 steps, execLog, deployOutput>>
  /\ UNCHANGED thrown
  /\ UNCHANGED apiVars /\ UNCHANGED pageVars

\* Lines 52-57: the final success frame, the completion sentinel, res.end().
handlerComplete ==
  /\ pc = "handlerComplete"
  /\ stream' = Append(progressCallback(stream, 100, "Deployment complete!", deploymentUrl),
                      Sentinel("complete"))
  /\ resp' = [resp EXCEPT !.ended = TRUE]
  /\ pc' = "done"
  /\ UNCHANGED <<client, req, bot, fs, analysis, deploymentUrl, failing, outcome,
                 steps, execLog, deployOutput>>
  /\ UNCHANGED thrown
  /\ UNCHANGED apiVars /\ UNCHANGED pageVars

\* Variant: the catch block closes the stream without its own error frame.
handlerCatch_noErrorFrame ==
  /\ pc = "handlerCatch"
  /\ stream' = Append(stream, Sentinel("error"))
  /\ resp' = [resp EXCEPT !.ended = TRUE]
  /\ pc' = "done"
  /\ UNCHANGED <<client, req, bot, fs, analysis, deploymentUrl, failing, outcome,
                 steps, execLog, deployOutput>>
  /\ UNCHANGED thrown
  /\ UNCHANGED apiVars /\ UNCHANGED pageVars

\* Variant: the catch block ends the response without the error sentinel.
handlerCatch_noSentinel ==
  /\ pc = "handlerCatch"
  /\ stream' = sendFailure(stream, <<"Error: ">> \o thrown[1])
  /\ resp' = [resp EXCEPT !.ended = TRUE]
  /\ pc' = "done"
  /\ UNCHANGED <<client, req, bot, fs, analysis, deploymentUrl, failing, outcome,
                 steps, execLog, deployOutput>>
  /\ UNCHANGED thrown
  /\ UNCHANGED apiVars /\ UNCHANGED pageVars

\* Variant: the catch block writes its frame and the sentinel and leaves
\* the response open.
handlerCatch_noEnd ==
  /\ pc = "handlerCatch"
  /\ stream' = Append(sendFailure(stream, <<"Error: ">> \o thrown[1]), Sentinel("error"))
  /\ pc' = "done"
  /\ UNCHANGED <<client, req, resp, bot, fs, analysis, deploymentUrl, failing, outcome,
                 steps, execLog, deployOutput>>
  /\ UNCHANGED thrown
  /\ UNCHANGED apiVars /\ UNCHANGED pageVars

\* Lines 59-64: the error frame with the Error's message after "Error: ",
\* the error sentinel, res.end().
handlerCatch ==
  /\ pc = "handlerCatch"
  /\ stream' = Append(sendFailure(stream, <<"Error: ">> \o thrown[1]), Sentinel("error"))
  /\ resp' = [resp EXCEPT !.ended = TRUE]
  /\ pc' = "done"
  /\ UNCHANGED <<client, req, bot, fs, analysis, deploymentUrl, failing, outcome,
                 steps, execLog, deployOutput>>
  /\ UNCHANGED thrown
  /\ UNCHANGED apiVars /\ UNCHANGED pageVars

(***************************************************************************)
(* The client: ConfigResult.deployDirectly (src/unnamed/part_002)          *)
(***************************************************************************)

IdleState ==
  [status |-> "idle", progress |-> 0, currentStep |-> "", deploymentUrl |-> NoUrl,
   error |-> Undefined, phase |-> "idle", pos |-> 0]

\* Lines 261-283: the state is reset to 'deploying' and the request is sent
\* with the component's repository and config (the wizard builds the config
\* with the selected repository's name as projectName).
\* The button is offered in the 'idle' state and, as "Retry Deployment", in
\* the 'error' state.
deployDirectly ==
  /\ client.status \in {"idle", "error"}
  /\ client.phase \in {"idle", "done"}
  /\ pc \in {"idle", "done"}
  /\ \E session \in BOOLEAN, repository \in Repos :
       \E config \in {c \in Configs : c.projectName = repository.name} :
         req' = Some([method |-> "POST", session |-> session, body |-> "object",
                      repository |-> repository, config |-> config])
  /\ client' = [IdleState EXCEPT !.status = "deploying",
                                 !.currentStep = "Starting deployment...",
                                 !.phase = "fetching"]
  /\ resp' = [status |-> 0, ended |-> FALSE]
  /\ stream' = <<>>
  /\ pc' = "handler"
  /\ bot' = NewBot
  /\ fs' = NoDir
  /\ analysis' = None
  /\ deploymentUrl' = NoUrl
  /\ failing' = FALSE
  /\ thrown' = None
  /\ outcome' = "none"
  /\ steps' = <<>>
  /\ execLog' = <<>>
  /\ deployOutput' = NoOutput
  /\ UNCHANGED apiVars /\ UNCHANGED pageVars

\* `repository` and `config` of a body that has neither: every field undefined
NoRepository == [name |-> Undefined, clone_url |-> NoCloneUrl, html_url |-> NoCloneUrl]
NoConfig ==
  [ projectName |-> Undefined, framework |-> Undefined, projectType |-> Undefined,
    region |-> Undefined, customDomain |-> [enabled |-> FALSE, domain |-> Undefined],
    userDistribution |-> Undefined, buildCommand |-> Undefined, outputDir |-> Undefined ]

\* A POST to /api/deploy-direct from a client other than the page, with the
\* JSON body `null`: req.body is null in the handler.
postNullBody ==
  /\ client.phase \in {"idle", "done"}
  /\ pc \in {"idle", "done"}
  /\ \E session \in BOOLEAN :
       req' = Some([method |-> "POST", session |-> session, body |-> "null",
                    repository |-> NoRepository, config |-> NoConfig])
  /\ resp' = [status |-> 0, ended |-> FALSE]
  /\ stream' = <<>>
  /\ pc' = "handler"
  /\ bot' = NewBot
  /\ fs' = NoDir
  /\ analysis' = None
  /\ deploymentUrl' = NoUrl
  /\ failing' = FALSE
  /\ thrown' = None
  /\ outcome' = "none"
  /\ steps' = <<>>
  /\ execLog' = <<>>
  /\ deployOutput' = NoOutput
  /\ UNCHANGED client
  /\ UNCHANGED apiVars /\ UNCHANGED pageVars

\* Lines 285-287: the response's status line has arrived.
clientResponse ==
  /\ client.phase = "fetching"
  /\ resp.status # 0
  /\ client' = IF resp.status = 200
                 THEN [client EXCEPT !.phase = "reading"]
               ELSE [client EXCEPT !.status = "error",
                                   !.error = "Deployment failed to start",
                                   !.currentStep = "Deployment failed",
                                   !.phase = "done"]
  /\ UNCHANGED serverVars /\ UNCHANGED histVars /\ UNCHANGED apiVars /\ UNCHANGED pageVars

\* Lines 301-316: one "data:" line is parsed and folded into the state;
\* `a || b` keeps the previous value for a missing or falsy field.
clientFrame(prev, data) ==
  [prev EXCEPT
     !.progress = IF data.type # "progress" \/ data.progress = 0
                    THEN prev.progress ELSE data.progress,
     !.currentStep = IF Truthy(data.step) THEN data.step ELSE prev.currentStep,
     !.deploymentUrl = IF data.deploymentUrl # NoUrl
                         THEN data.deploymentUrl ELSE prev.deploymentUrl,
     !.pos = prev.pos + 1]

clientRead ==
  /\ client.phase = "reading"
  /\ client.pos < Len(stream)
  /\ client' = clientFrame(client, stream[client.pos + 1])
  /\ UNCHANGED serverVars /\ UNCHANGED histVars /\ UNCHANGED apiVars /\ UNCHANGED pageVars

\* Lines 296 and 320-325: the body has ended (done), whatever closed it.
clientDone ==
  /\ client.phase = "reading"
  /\ client.pos = Len(stream)
  /\ resp.ended
  /\ client' = [client EXCEPT !.status = "success", !.progress = 100,
                              !.currentStep = "Deployment complete!",
                              !.phase = "done"]
  /\ UNCHANGED serverVars /\ UNCHANGED histVars /\ UNCHANGED apiVars /\ UNCHANGED pageVars

\* Lines 462 and 478: "Deploy Another Project" / the error panel's reset.
clientReset ==
  /\ client.status \in {"success", "error"}
  /\ client' = IdleState
  /\ UNCHANGED serverVars /\ UNCHANGED histVars /\ UNCHANGED apiVars /\ UNCHANGED pageVars


(***************************************************************************)
(* The request/response API handlers (src/pages/api)                       *)
(***************************************************************************)

Accounts == {"ann@example.org", "bob@example.org"}

\* getServerSession's result: no session, or a session whose user email and
\* access token may each be missing.
NoSession == [present |-> FALSE, email |-> Undefined, accessToken |-> FALSE]
Sessions ==
  {NoSession} \cup
  { [present |-> TRUE, email |-> e, accessToken |-> TRUE] : e \in Accounts } \cup
  { [present |-> TRUE, email |-> Undefined, accessToken |-> FALSE] }

\* Bounds of the store model.
MaxSaves == 3
MaxClock == 2

\* Date.now().toString() and new Date().toISOString()
DateString(t) == ToString(t)
ISOString(t) == <<"iso", t>>

\* Request bodies of a save: what saveConfiguration sends, and a body that
\* also carries an id and a createdAt of its own.
SaveBodies ==
  LET c1 == CHOOSE c \in Configs : c.projectType = "SSR"
      c2 == CHOOSE c \in Configs : c.projectType = "CSR"
  IN  { [name |-> "prod", repository |-> "ann/my-app", config |-> c1],
        [name |-> "staging", repository |-> "ann/my-app", config |-> c2],
        [id |-> "1", createdAt |-> ISOString(0), name |-> "prod",
         repository |-> "ann/my-app", config |-> c1] }

EmptyStore == [e \in Accounts |-> <<>>]

\* The entry a POST builds: { id, ...req.body, createdAt, updatedAt }, a later
\* key overriding an earlier one.
newSavedConfig(body, t) ==
  [createdAt |-> ISOString(t), updatedAt |-> ISOString(t)]
    @@ body @@ [id |-> DateString(t)]

\* Variant: the entry is stored only when the account has no list yet.
pushConfig_onlyFirst(store, userEmail, config) ==
  IF store[userEmail] = <<>> THEN [store EXCEPT ![userEmail] = <<config>>] ELSE store

\* Variant: the account's list is replaced by the new entry.
pushConfig_replaceList(store, userEmail, config) ==
  [store EXCEPT ![userEmail] = <<config>>]

\* savedConfigs[userEmail].push(config)
pushConfig(store, userEmail, config) ==
  [store EXCEPT ![userEmail] = Append(@, config)]

\* Variant: one list shared by every account.
listConfigs_shared(store, userEmail) ==
  LET RECURSIVE Cat(_)
      Cat(S) == IF S = {} THEN <<>>
                ELSE LET e == CHOOSE x \in S : TRUE
                     IN  store[e] \o Cat(S \ {e})
  IN  Cat(DOMAIN store)

\* savedConfigs[userEmail] || []
listConfigs(store, userEmail) == store[userEmail]

StoreSize == LET RECURSIVE Sum(_)
                 Sum(S) == IF S = {} THEN 0
                           ELSE LET e == CHOOSE x \in S : TRUE
                                IN  Len(savedConfigs[e]) + Sum(S \ {e})
             IN  Sum(Accounts)

Request(endpoint, method, session, body) ==
  [endpoint |-> endpoint, method |-> method, session |-> session, body |-> body]
Response(status, body) == [status |-> status, body |-> body]

Methods == {"GET", "POST", "DELETE"}

\* /api/configs (src/pages/api/repositories.ts, lines 28-57).  The handler's
\* three reads of the clock fall into one tick of it.
configsHandler ==
  /\ \E method \in Methods, session \in Sessions :
       IF ~session.present \/ session.email = Undefined
         THEN /\ apiReq' = Some(Request("configs", method, session, None))
              /\ apiResp' = Some(Response(401, "Unauthorized"))
              /\ work' = {}
              /\ UNCHANGED <<savedConfigs, now, lastSave, saveLog, upstream>>
       ELSE IF method = "GET"
         THEN /\ apiReq' = Some(Request("configs", method, session, None))
              /\ apiResp' = Some(Response(200, listConfigs(savedConfigs, session.email)))
              /\ work' = {"list"}
              /\ UNCHANGED <<savedConfigs, now, lastSave, saveLog, upstream>>
       ELSE IF method = "POST"
         THEN \E body \in SaveBodies :
                LET config == newSavedConfig(body, now)
                IN  /\ StoreSize < MaxSaves
                    /\ savedConfigs' = pushConfig(savedConfigs, session.email, config)
                    /\ apiReq' = Some(Request("configs", method, session, Some(body)))
                    /\ apiResp' = Some(Response(200, config))
                    /\ work' = {"store"}
                    /\ lastSave' = [lastSave EXCEPT ![session.email] =
                                      Some([body |-> body, response |-> config])]
                    /\ saveLog' = [saveLog EXCEPT ![session.email] = Append(@, config)]
                    /\ UNCHANGED <<now, upstream>>
       ELSE /\ apiReq' = Some(Request("configs", method, session, None))
            /\ apiResp' = Some(Response(405, "Method not allowed"))
            /\ work' = {}
            /\ UNCHANGED <<savedConfigs, now, lastSave, saveLog, upstream>>
  /\ UNCHANGED deployVars /\ UNCHANGED pageVars

\* Bodies of a generate-config request: the wizard's configurations and
\* others of the DeploymentConfig shape, among them a project type outside
\* the three known ones and an enabled custom domain without a domain.
GenConfigs ==
  Configs \cup
  { [projectName |-> n, framework |-> f, projectType |-> t, region |-> r,
     customDomain |-> d, userDistribution |-> u, buildCommand |-> b,
     outputDir |-> "dist"] :
      n \in {"my-app", "site"},
      f \in {"Next.js", "Nuxt", "SvelteKit", "Remix", "React SPA", "Hugo"},
      t \in {"SSR", "CSR", "STATIC", "SPA"},
      r \in {"us-east-1", "eu-west-1"},
      d \in { [enabled |-> FALSE, domain |-> Undefined],
              [enabled |-> FALSE, domain |-> "old.example.org"],
              [enabled |-> TRUE, domain |-> "app.example.org"],
              [enabled |-> TRUE, domain |-> Undefined] },
      u \in {"single", "worldwide"},
      b \in {Undefined, "npm run build"} }

\* The instructions file of lines 26-46, by its three interpolated lines.
deploymentInstructions(config) ==
  [ deploys |-> IF config.projectType = "SSR" THEN "Lambda functions"
                ELSE "S3 bucket",
    domain  |-> IF config.customDomain.enabled THEN "Custom domain configuration"
                ELSE "Default AWS URLs",
    cdn     |-> IF config.userDistribution = "worldwide" THEN "CloudFront CDN"
                ELSE "Regional deployment" ]

\* The archive's entries, in the order they are appended.
configArchive(config) ==
  [i \in 1..Len(generateConfig(config)) |->
     [name |-> generateConfig(config)[i].filename, from |-> "SSTGenerator",
      content |-> generateConfig(config)[i].content]]
  \o << [name |-> "DEPLOYMENT_INSTRUCTIONS.md", from |-> "handler",
          content |-> deploymentInstructions(config)] >>

\* /api/generate-config (src/pages/api/generate-config.ts): no session is
\* looked up; a body that is no config makes the generator throw.
generateConfigHandler ==
  /\ \E method \in Methods, session \in Sessions, body \in {None} \cup {Some(c) : c \in GenConfigs} :
       /\ apiReq' = Some(Request("generate-config", method, session, body))
       /\ IF method # "POST"
            THEN apiResp' = Some(Response(405, "Method not allowed")) /\ work' = {}
          ELSE IF body = None
            THEN apiResp' = Some(Response(500, "Failed to generate configuration"))
                 /\ work' = {}
          ELSE apiResp' = Some(Response(200, configArchive(body[1])))
               /\ work' = {"generate", "archive"}
       /\ UNCHANGED <<savedConfigs, now, lastSave, saveLog, upstream>>
  /\ UNCHANGED deployVars /\ UNCHANGED pageVars

\* The deploy package's entries, in the order they are appended.
deployArchive(config) ==
  [i \in 1..Len(generateConfig(config)) |->
     [name |-> generateConfig(config)[i].filename, from |-> "SSTGenerator"]]
  \o << [name |-> "deploy.sh", from |-> "generateQuickDeployScript"],
        [name |-> "package.json", from |-> "generatePackageJson"],
        [name |-> "README.md", from |-> "generateReadme"] >>

\* /api/generate-deploy-script (src/pages/api/generate-deploy-script.ts): no
\* session is looked up.
generateDeployScriptHandler ==
  /\ \E method \in Methods, session \in Sessions, repository \in {None} \cup {Some(r) : r \in Repos},
        config \in Configs :
       /\ apiReq' = Some(Request("generate-deploy-script", method, session,
                                 [repository |-> repository, config |-> config]))
       /\ IF method # "POST"
            THEN apiResp' = Some(Response(405, "Method not allowed")) /\ work' = {}
          ELSE IF repository = None
            THEN apiResp' = Some(Response(400, "Repository information required"))
                 /\ work' = {}
          ELSE apiResp' = Some(Response(200, deployArchive(config)))
               /\ work' = {"generate", "archive"}
       /\ UNCHANGED <<savedConfigs, now, lastSave, saveLog, upstream>>
  /\ UNCHANGED deployVars /\ UNCHANGED pageVars

\* /api/repositories (src/pages/api/repositories.ts, lines 6-21): the
\* source-control host answers or fails.
repositoriesHandler ==
  /\ \E method \in Methods, session \in Sessions, hostOk \in BOOLEAN :
       /\ apiReq' = Some(Request("repositories", method, session, None))
       /\ IF ~session.present \/ ~session.accessToken
            THEN apiResp' = Some(Response(401, "Unauthorized")) /\ work' = {}
          ELSE IF hostOk
            THEN apiResp' = Some(Response(200, Repos)) /\ work' = {"github"}
          ELSE apiResp' = Some(Response(500, "Failed to fetch repositories"))
               /\ work' = {"github"}
       /\ UNCHANGED <<savedConfigs, now, lastSave, saveLog, upstream>>
  /\ UNCHANGED deployVars /\ UNCHANGED pageVars

(***************************************************************************)
(* GitHubAnalyzer (src/lib/github.ts) and ClaudeAnalyzer                   *)
(* (src/lib/claude-analyzer.ts)                                            *)
(***************************************************************************)

\* How a call ends: it returns a value or throws an Error with a message.
Return(v) == [threw |-> FALSE, value |-> <<v>>, message |-> ""]
Throw(message) == [threw |-> TRUE, value |-> <<>>, message |-> message]

Null == "<null>"

\* octokit.repos.getContent answers with a file, with a directory listing,
\* or fails.
HostFailures == {"network", "auth", "not-found"}
FileReply(content) == [kind |-> "file", content |-> content, names |-> {}]
DirReply(names) == [kind |-> "directory", content |-> "", names |-> names]
FailReply(cause) == [kind |-> cause, content |-> "", names |-> {}]

\* Variant: a failure of the host is thrown on to the caller.
getFileContent_rethrow(reply) ==
  IF reply.kind \in HostFailures THEN Throw(reply.kind)
  ELSE IF reply.kind = "file" THEN Return(reply.content)
  ELSE Return(Null)

\* getFileContent: the decoded content of a file, null for anything else and
\* for every failure.
getFileContent(reply) ==
  IF reply.kind = "file" THEN Return(reply.content) ELSE Return(Null)

\* getDirectoryContents: the entry names of a listing, [] for anything else
\* and for every failure.
getDirectoryContents(reply) ==
  IF reply.kind = "directory" THEN Return(reply.names) ELSE Return({})

importantFiles ==
  { "next.config.js", "next.config.ts", "next.config.mjs",
    "nuxt.config.js", "nuxt.config.ts",
    "svelte.config.js", "svelte.config.ts",
    "remix.config.js", "remix.config.ts",
    "vue.config.js", "vite.config.js", "vite.config.ts",
    "angular.json", "gatsby-config.js",
    ".eleventy.js", "eleventy.config.js",
    "_config.yml", "config.toml", "config.yaml" }

\* analyzeProject, lines 60-92: the repository description, or the error of
\* a fetch that threw.  host.config answers every fetch of a config file.
repoData(host) ==
  LET packageJsonContent == getFileContent(host.packageJson)
      rootFiles == getDirectoryContents(host.root)
      srcFiles == getDirectoryContents(host.src)
  IN  IF packageJsonContent.threw THEN packageJsonContent
      ELSE IF rootFiles.threw THEN rootFiles
      ELSE IF srcFiles.threw THEN srcFiles
      ELSE LET wanted == importantFiles \cap rootFiles.value[1]
               content == getFileContent(host.config)
           IN  IF wanted # {} /\ content.threw THEN content
               ELSE LET kept == IF wanted # {} /\ content.value[1] # Null
                                     /\ content.value[1] # ""
                                THEN wanted ELSE {}
                    IN  Return([ packageJson |-> packageJsonContent.value[1],
                                 rootFiles   |-> rootFiles.value[1],
                                 srcFiles    |-> srcFiles.value[1],
                                 configFiles |-> [f \in kept |-> content.value[1]] ])

\* buildAnalysisPrompt, by the interpolated parts of the prompt.
buildAnalysisPrompt(data) ==
  [ rootFiles   |-> data.rootFiles,
    srcFiles    |-> data.srcFiles,
    packageJson |-> IF data.packageJson = Null \/ data.packageJson = ""
                    THEN "None found" ELSE data.packageJson,
    configFiles |-> data.configFiles ]

\* A piece of the model's response text: prose without braces, a stray "{",
\* a stray "}", braced text that is no JSON ("{not json}"), or one JSON
\* object.
Prose == [kind |-> "prose", object |-> None]
OpenBrace == [kind |-> "open", object |-> None]
CloseBrace == [kind |-> "close", object |-> None]
Braced == [kind |-> "braced", object |-> None]
Object(o) == [kind |-> "object", object |-> Some(o)]

HasOpen(t) == t.kind \in {"open", "braced", "object"}
HasClose(t) == t.kind \in {"close", "braced", "object"}

\* response.match(/\{[\s\S]*\}/): from the first "{" to the last "}" of the
\* text, if a "}" follows the first "{".
jsonMatch(response) ==
  LET opens == {i \in 1..Len(response) : HasOpen(response[i])}
  IN  IF opens = {} THEN None
      ELSE LET first == CHOOSE i \in opens : \A k \in opens : i <= k
               closes == {j \in first..Len(response) :
                            /\ HasClose(response[j])
                            /\ (j = first => response[j].kind # "open")}
           IN  IF closes = {} THEN None
               ELSE LET last == CHOOSE j \in closes : \A k \in closes : k <= j
                    IN  Some(SubSeq(response, first, last))

\* JSON.parse of the matched text: it parses when it is one JSON object and
\* nothing else.
JSONparse(matched) ==
  IF Len(matched) = 1 /\ matched[1].kind = "object"
    THEN Return(matched[1].object[1])
  ELSE Throw("SyntaxError")

\* parseAnalysisResponse: every throw inside the try is caught on line 118
\* and replaced.
parseAnalysisResponse(response) ==
  LET match == jsonMatch(response)
  IN  IF match = None THEN Throw("Invalid response format from Claude API")
      ELSE LET parsed == JSONparse(match[1])
           IN  IF parsed.threw THEN Throw("Invalid response format from Claude API")
               ELSE LET a == parsed.value[1]
                    IN  IF ~Truthy(a.type) \/ ~Truthy(a.framework)
                          THEN Throw("Invalid response format from Claude API")
                        ELSE Return(
                          [ type         |-> a.type,
                            framework    |-> a.framework,
                            buildCommand |-> IF a.buildCommand = "null" THEN Undefined
                                             ELSE a.buildCommand,
                            outputDir    |-> IF Truthy(a.outputDir) THEN a.outputDir
                                             ELSE "dist",
                            dependencies |-> IF a.dependencies = None THEN <<>>
                                             ELSE a.dependencies[1],
                            confidence   |-> IF a.confidence = None \/ a.confidence = Some(0)
                                             THEN 80 ELSE a.confidence[1] ])

\* What anthropic.messages.create does: it fails, or answers with no content
\* block, with a first block that is no text, or with a text.
ModelFailures == {"network", "auth", "overloaded"}
ModelFails(cause) == [kind |-> cause, text |-> <<>>]
ModelAnswers(kind, text) == [kind |-> kind, text |-> text]

\* analyzeRepository: the call and the parse share one try; whatever is
\* thrown there is caught on line 34 and replaced.
analyzeRepository(data, reply) ==
  IF reply.kind \in ModelFailures \/ reply.kind = "empty"
    THEN Throw("Failed to analyze repository with Claude")
  ELSE LET analysisText == IF reply.kind = "text" THEN reply.text ELSE <<>>
           parsed == parseAnalysisResponse(analysisText)
       IN  IF parsed.threw THEN Throw("Failed to analyze repository with Claude")
           ELSE parsed

\* analyzeProject: whatever is thrown is caught on line 95 and replaced.
analyzeProject(host, reply) ==
  LET data == repoData(host)
  IN  IF data.threw THEN Throw("Failed to analyze repository")
      ELSE LET result == analyzeRepository(data.value[1], reply)
           IN  IF result.threw THEN Throw("Failed to analyze repository")
               ELSE result

\* The JSON objects a response can carry: the requested format, and objects
\* with a field missing, empty or of another value.  confidence is in
\* hundredths.
FullObject ==
  [ type |-> "SSR", framework |-> "Next.js", buildCommand |-> "npm run build",
    outputDir |-> ".next", dependencies |-> Some(<<"next", "react">>),
    confidence |-> Some(95) ]
ModelObjects ==
  { FullObject,
    [FullObject EXCEPT !.type = "STATIC", !.framework = "Static HTML",
                       !.buildCommand = "null", !.outputDir = ".",
                       !.dependencies = Some(<<>>), !.confidence = Some(0)],
    [FullObject EXCEPT !.type = "SPA"],
    [FullObject EXCEPT !.type = Undefined],
    [FullObject EXCEPT !.type = ""],
    [FullObject EXCEPT !.framework = Undefined],
    [FullObject EXCEPT !.outputDir = Undefined],
    [FullObject EXCEPT !.dependencies = None],
    [FullObject EXCEPT !.buildCommand = Undefined, !.confidence = None] }

ModelTexts ==
  { <<>>, <<Prose>>, <<Braced>>, <<CloseBrace, Prose, OpenBrace>> } \cup
  UNION { { <<Object(o)>>,
            <<Prose, Object(o), Prose>>,
            <<Braced, Object(o)>>,
            <<Object(o), Prose, CloseBrace>>,
            <<OpenBrace, Prose, Object(o)>>,
            <<Object(o), Object(o)>> } : o \in ModelObjects }

ModelReplies ==
  { ModelFails(c) : c \in ModelFailures } \cup
  { ModelAnswers("empty", <<>>), ModelAnswers("tool_use", <<>>) } \cup
  { ModelAnswers("text", t) : t \in ModelTexts }

\* What the source-control host answers to the fetches of one analysis.
HostStates ==
  [ packageJson : { FileReply("{\"dependencies\":{\"next\":\"14\"}}"), FileReply(""),
                    DirReply({}) } \cup { FailReply(c) : c \in HostFailures },
    root        : { DirReply({"index.html"}),
                    DirReply({"package.json", "next.config.js", "src"}),
                    FileReply("README") } \cup { FailReply(c) : c \in HostFailures },
    src         : { DirReply({"index.tsx"}), FailReply("not-found") },
    config      : { FileReply("module.exports = {}"), FailReply("network") } ]

\* /api/analyze/[owner]/[repo]: the session check, then analyzeProject; its
\* result is the response, its error becomes a 500 with a fixed body.
analyzeHandler ==
  /\ \E method \in Methods, session \in Sessions, host \in HostStates,
        reply \in ModelReplies :
       /\ apiReq' = Some(Request("analyze", method, session, None))
       /\ IF ~session.present \/ ~session.accessToken
            THEN /\ apiResp' = Some(Response(401, "Unauthorized"))
                 /\ work' = {}
                 /\ upstream' = None
          ELSE LET data == repoData(host)
                   analysisResult == analyzeProject(host, reply)
               IN  /\ upstream' =
                        Some([ host |-> host, reply |-> reply,
                               submitted |-> IF data.threw THEN None
                                             ELSE Some(buildAnalysisPrompt(data.value[1])) ])
                   /\ work' = IF data.threw THEN {"github"} ELSE {"github", "analyze"}
                   /\ apiResp' =
                        IF analysisResult.threw
                          THEN Some(Response(500, "Failed to analyze repository"))
                        ELSE Some(Response(200, analysisResult.value[1]))
       /\ UNCHANGED <<savedConfigs, now, lastSave, saveLog>>
  /\ UNCHANGED deployVars /\ UNCHANGED pageVars

\* /api/deploy-direct as a request/response endpoint: the answer of its gate;
\* an accepted request starts a deployment (Spec follows it).
deployDirectHandler ==
  /\ \E method \in Methods, session \in Sessions :
       LET status == deployDirectGate(method, session.present)
       IN  /\ apiReq' = Some(Request("deploy-direct", method, session, None))
           /\ apiResp' = Some(Response(status, IF status = 200 THEN "event-stream"
                                               ELSE IF status = 401 THEN "Unauthorized"
                                               ELSE "Method not allowed"))
           /\ work' = IF status = 200 THEN {"deploy"} ELSE {}
           /\ UNCHANGED <<savedConfigs, now, lastSave, saveLog, upstream>>
  /\ UNCHANGED deployVars /\ UNCHANGED pageVars

\* Time passes between requests.
Tick ==
  /\ now < MaxClock
  /\ now' = now + 1
  /\ UNCHANGED <<savedConfigs, apiReq, apiResp, work, lastSave, saveLog, upstream>>
  /\ UNCHANGED deployVars /\ UNCHANGED pageVars

\* The server process restarts: the module-level store starts empty again.
Restart ==
  /\ savedConfigs # EmptyStore
  /\ savedConfigs' = EmptyStore
  /\ lastSave' = [e \in Accounts |-> None]
  /\ saveLog' = EmptyStore
  /\ upstream' = None
  /\ apiReq' = None
  /\ apiResp' = None
  /\ work' = {}
  /\ UNCHANGED now
  /\ UNCHANGED deployVars /\ UNCHANGED pageVars

(***************************************************************************)
(* The wizard: Home, RepositorySelector and ContextQuestions                *)
(***************************************************************************)

\* obj.field of a JavaScript object: undefined when the object has no such field
Get(obj, field) == IF field \in DOMAIN obj THEN obj[field] ELSE Undefined

\* Analysis requests in flight at once; the loading overlay has no focus trap,
\* so a second repository can be chosen while the first is being analyzed.
MaxPending == 2

\* What fetch('/api/repositories') and response.json() give the selector:
\* the decoded body (an array of repositories or an object), or a rejection.
RepoListReplies ==
  { [failed |-> FALSE, status |-> 200, isArray |-> TRUE, items |-> Repos, error |-> Undefined],
    [failed |-> FALSE, status |-> 200, isArray |-> TRUE, items |-> {}, error |-> Undefined],
    [failed |-> FALSE, status |-> 200, isArray |-> FALSE, items |-> {}, error |-> Undefined],
    [failed |-> FALSE, status |-> 401, isArray |-> FALSE, items |-> {}, error |-> "Unauthorized"],
    [failed |-> FALSE, status |-> 500, isArray |-> FALSE, items |-> {},
     error |-> "Failed to fetch repositories"],
    [failed |-> FALSE, status |-> 502, isArray |-> FALSE, items |-> {}, error |-> Undefined],
    [failed |-> TRUE, status |-> 0, isArray |-> FALSE, items |-> {}, error |-> Undefined] }

\* What fetch(`/api/analyze/${owner}/${repoName}`) and response.json() give
\* Home: the analysis endpoint's 200 body, its 401 and 500 error bodies, or a
\* rejection (no connection, or a body that is not JSON).
AnalysisReplies ==
  { [failed |-> FALSE, status |-> 200,
     body |-> [type |-> "SSR", framework |-> "Next.js", buildCommand |-> "npm run build",
               outputDir |-> ".next"]],
    [failed |-> FALSE, status |-> 200,
     body |-> [type |-> "STATIC", framework |-> "Static HTML", buildCommand |-> "null",
               outputDir |-> "."]],
    [failed |-> FALSE, status |-> 401, body |-> [error |-> "Unauthorized"]],
    [failed |-> FALSE, status |-> 500, body |-> [error |-> "Failed to analyze repository"]],
    [failed |-> TRUE, status |-> 0, body |-> [error |-> "<rejected>"]] }

\* ContextQuestions' state when the form is submitted
Forms ==
  { [userDistribution |-> u, customDomain |-> c,
     domain |-> IF c THEN "app.example.org" ELSE "", region |-> r] :
      u \in {"single", "worldwide"}, c \in BOOLEAN, r \in {"us-east-1", "eu-west-1"} }

SelectorInit == [repositories |-> {}, error |-> None]

\* history: the handler that ran last and what it was given
Event(name, input) == [event |-> name, input |-> input]

InitWizard ==
  wizard = [ currentStep |-> "auth",
             selectedRepo |-> None,
             analysis |-> None,
             loading |-> FALSE,
             finalConfig |-> None,
             selector |-> SelectorInit,
             pending |-> <<>>,
             last |-> Event("none", None) ]

\* RepositorySelector is rendered on step 'repos' only: it mounts, with its
\* initial state, when the step becomes 'repos'.
mountSelector(w, step) ==
  IF step = "repos" /\ w.currentStep = "repos" THEN w.selector ELSE SelectorInit

setCurrentStep(step) ==
  /\ step \in {"repos", "saved"}
  /\ wizard' = [wizard EXCEPT !.currentStep = step,
                              !.selector = mountSelector(wizard, step),
                              !.last = Event("setCurrentStep", None)]

fetchRepositories ==
  /\ wizard.currentStep = "repos"
  /\ \E reply \in RepoListReplies :
       LET error ==
             IF reply.failed
               THEN Some("Failed to connect to GitHub. Please check your connection.")
             ELSE IF reply.status # 200 \/ Truthy(reply.error)
               THEN Some(IF Truthy(reply.error) THEN reply.error
                         ELSE "Failed to fetch repositories")
             ELSE IF reply.isArray THEN None
             ELSE Some("Invalid response format from GitHub API")
       IN  wizard' = [wizard EXCEPT
                        !.selector = [repositories |-> IF error = None THEN reply.items ELSE {},
                                      error |-> error],
                        !.last = Event("fetchRepositories", Some(reply))]

\* RepositorySelector's onSelect: Home.analyzeRepository up to its first await
onSelect ==
  /\ wizard.currentStep = "repos"
  /\ wizard.selector.error = None
  /\ Len(wizard.pending) < MaxPending
  /\ \E repo \in wizard.selector.repositories :
       wizard' = [wizard EXCEPT !.selectedRepo = Some(repo),
                                !.loading = TRUE,
                                !.pending = Append(@, repo),
                                !.last = Event("onSelect", None)]

RemoveAt(seq, i) == SubSeq(seq, 1, i - 1) \o SubSeq(seq, i + 1, Len(seq))

\* analyzeRepository's catch block: the alert it raises, if any
analyzeRepositoryAlert(reply) ==
  IF reply.failed THEN Some("Failed to analyze repository. Please try again.") ELSE None

\* analyzeRepository from the await on: the try block's rest, or catch, then finally
analyzeRepositoryResume(w, reply) ==
  IF reply.failed
    THEN [w EXCEPT !.loading = FALSE]
  ELSE [w EXCEPT !.analysis = Some(reply.body), !.currentStep = "questions",
                 !.loading = FALSE]

analyzeRepositoryAwait ==
  \E i \in 1..Len(wizard.pending), reply \in AnalysisReplies :
    LET after == analyzeRepositoryResume(wizard, reply)
    IN  wizard' = [after EXCEPT
                     !.pending = RemoveAt(@, i),
                     !.selector = IF after.currentStep = "repos" THEN @ ELSE SelectorInit,
                     !.last = Event("analyzeRepository",
                                    Some([ reply |-> reply,
                                           before |-> wizard.currentStep,
                                           alert |-> analyzeRepositoryAlert(reply) ]))]

\* ContextQuestions.handleSubmit's argument to onComplete
contextConfig_selectedRegion(form) ==
  [ userDistribution |-> form.userDistribution,
    customDomain |-> IF form.customDomain THEN [enabled |-> TRUE, domain |-> form.domain]
                     ELSE [enabled |-> FALSE],
    region |-> form.region,
    expectedUsers |-> "<100",
    performance |-> "fast" ]
contextConfig(form) ==
  [ userDistribution |-> form.userDistribution,
    customDomain |-> IF form.customDomain THEN [enabled |-> TRUE, domain |-> form.domain]
                     ELSE [enabled |-> FALSE],
    region |-> IF form.userDistribution = "single" THEN form.region ELSE "us-east-1",
    expectedUsers |-> "<100",
    performance |-> "fast" ]

\* handleQuestionsComplete's `config`: the spread of contextConfig comes last
mergedConfig(repo, result, answers) ==
  answers @@ [ projectName |-> repo.name,
               framework |-> Get(result, "framework"),
               projectType |-> Get(result, "type"),
               buildCommand |-> Get(result, "buildCommand"),
               outputDir |-> Get(result, "outputDir"),
               performance |-> "fast",
               expectedUsers |-> "<100" ]

handleQuestionsComplete(w, form) ==
  IF w.selectedRepo = None \/ w.analysis = None
    THEN w
  ELSE LET config == mergedConfig(w.selectedRepo[1], w.analysis[1], contextConfig(form))
       IN  [w EXCEPT !.finalConfig = Some(config), !.currentStep = "result"]

\* ContextQuestions is rendered when currentStep === 'questions' && selectedRepo
handleSubmit ==
  /\ wizard.currentStep = "questions"
  /\ wizard.selectedRepo # None
  /\ \E form \in Forms :
       wizard' = [handleQuestionsComplete(wizard, form) EXCEPT
                    !.last = Event("handleSubmit",
                                   Some([ form |-> form, repo |-> wizard.selectedRepo,
                                          analysis |-> wizard.analysis ]))]

resetFlow_keepConfig(w) ==
  [w EXCEPT !.currentStep = "repos", !.selectedRepo = None, !.analysis = None,
            !.selector = mountSelector(w, "repos")]
resetFlow(w) ==
  [w EXCEPT !.currentStep = "repos", !.selectedRepo = None, !.analysis = None,
            !.finalConfig = None, !.selector = mountSelector(w, "repos")]

\* the button under ConfigResult, rendered when currentStep === 'result' && finalConfig
analyzeAnother ==
  /\ wizard.currentStep = "result"
  /\ wizard.finalConfig # None
  /\ wizard' = [resetFlow(wizard) EXCEPT !.last = Event("resetFlow", None)]

(***************************************************************************)
(* Deployment runs side by side                                             *)
(***************************************************************************)

\* execSync blocks a server process for the length of its run, so runs that
\* overlap are runs of different server processes on one host: they share
\* os.tmpdir() and the wall clock.
MaxRuns == 2
Runs == 1..MaxRuns

\* path.join(os.tmpdir(), `aws-deploy-${Date.now()}`)
tempDirAt(t) == <<"aws-deploy-", DateString(t)>>

NoTempDir == <<>>
IdleRun == [pc |-> "idle", tempDir |-> NoTempDir, cloned |-> FALSE]

InitPool == pool = [runs |-> [r \in Runs |-> IdleRun], dirs |-> {}]

\* bot.deploy() up to cloneRepository: a new AWSDeployBot per request
deployOf(r) ==
  /\ pool.runs[r].pc = "idle"
  /\ pool' = [pool EXCEPT !.runs[r] = [IdleRun EXCEPT !.pc = "cloneRepository"]]

\* `git clone <url> <dir>` creates dir, and fails when dir exists and is not empty
cloneRepositoryOf(r) ==
  /\ pool.runs[r].pc = "cloneRepository"
  /\ LET dir == tempDirAt(now)
     IN  \/ /\ dir \notin pool.dirs
            /\ \E ok \in BOOLEAN :
                 pool' = [pool EXCEPT
                            !.runs[r] = [pc |-> IF ok THEN "pipeline" ELSE "cleanup",
                                         tempDir |-> dir, cloned |-> ok],
                            !.dirs = IF ok THEN @ \cup {dir} ELSE @]
         \/ /\ dir \in pool.dirs
            /\ pool' = [pool EXCEPT
                          !.runs[r] = [pc |-> "cleanup", tempDir |-> dir, cloned |-> FALSE]]

\* detectProjectType .. deployToAWS, in the clone: they return or one throws
pipelineOf(r) ==
  /\ pool.runs[r].pc = "pipeline"
  /\ pool' = [pool EXCEPT !.runs[r].pc = "cleanup"]

\* cleanup, from the try block or from catch: rm -rf of this.tempDir if it exists
cleanupOf(r) ==
  /\ pool.runs[r].pc = "cleanup"
  /\ pool' = [pool EXCEPT !.runs[r].pc = "done",
                          !.dirs = @ \ {pool.runs[r].tempDir}]

\* the response has ended; the process takes the next request
nextRequestOf(r) ==
  /\ pool.runs[r].pc = "done"
  /\ pool' = [pool EXCEPT !.runs[r] = IdleRun]


(***************************************************************************)
(* Specifications                                                          *)
(***************************************************************************)

InitDeploy ==
  /\ client = IdleState
  /\ req = None
  /\ resp = [status |-> 0, ended |-> FALSE]
  /\ stream = <<>>
  /\ pc = "idle"
  /\ bot = NewBot
  /\ fs = NoDir
  /\ analysis = None
  /\ deploymentUrl = NoUrl
  /\ failing = FALSE
  /\ thrown = None
  /\ outcome = "none"
  /\ steps = <<>>
  /\ execLog = <<>>
  /\ deployOutput = NoOutput

InitApi ==
  /\ savedConfigs = EmptyStore
  /\ now = 0
  /\ apiReq = None
  /\ apiResp = None
  /\ work = {}
  /\ lastSave = [e \in Accounts |-> None]
  /\ saveLog = EmptyStore
  /\ upstream = None

Init == InitDeploy /\ InitApi /\ InitWizard /\ InitPool

Next ==
  \/ deployDirectly
  \/ postNullBody
  \/ clientResponse
  \/ clientRead
  \/ clientDone
  \/ clientReset
  \/ handler
  \/ deploy
  \/ checkPrerequisites
  \/ cloneRepository
  \/ detectProjectType
  \/ installDependencies
  \/ addSSTConfig
  \/ deployToAWS
  \/ cleanup
  \/ deployReturn
  \/ deployCatch
  \/ handlerComplete
  \/ handlerCatch

Spec == Init /\ [][Next]_vars

\* The handler and the bot run to completion: every execSync call returns or
\* throws (each external process terminates) and Node resumes each await.
ServerStep ==
  \/ handler
  \/ deploy
  \/ checkPrerequisites
  \/ cloneRepository
  \/ detectProjectType
  \/ installDependencies
  \/ addSSTConfig
  \/ deployToAWS
  \/ cleanup
  \/ deployReturn
  \/ deployCatch
  \/ handlerComplete
  \/ handlerCatch

SpecLive == Init /\ [][Next]_vars /\ WF_vars(ServerStep)

\* These handlers read and write no state of the process: what one answers
\* depends on its request alone, so a behaviour is one request to a process
\* that has answered none.
Fresh == apiReq = None

NextApi ==
  \/ Fresh /\ generateConfigHandler
  \/ Fresh /\ generateDeployScriptHandler
  \/ Fresh /\ repositoriesHandler
  \/ Fresh /\ analyzeHandler
  \/ Fresh /\ deployDirectHandler

SpecApi == Init /\ [][NextApi]_vars

NextStore ==
  \/ configsHandler
  \/ Tick
  \/ Restart

SpecStore == Init /\ [][NextStore]_vars

NextWizard ==
  \/ \E step \in {"repos", "saved"} : setCurrentStep(step) /\ UNCHANGED <<deployVars, apiVars, pool>>
  \/ fetchRepositories /\ UNCHANGED <<deployVars, apiVars, pool>>
  \/ onSelect /\ UNCHANGED <<deployVars, apiVars, pool>>
  \/ analyzeRepositoryAwait /\ UNCHANGED <<deployVars, apiVars, pool>>
  \/ handleSubmit /\ UNCHANGED <<deployVars, apiVars, pool>>
  \/ analyzeAnother /\ UNCHANGED <<deployVars, apiVars, pool>>

SpecWizard == Init /\ [][NextWizard]_vars

NextPool ==
  \/ \E r \in Runs : deployOf(r) /\ UNCHANGED <<deployVars, apiVars, wizard>>
  \/ \E r \in Runs : cloneRepositoryOf(r) /\ UNCHANGED <<deployVars, apiVars, wizard>>
  \/ \E r \in Runs : pipelineOf(r) /\ UNCHANGED <<deployVars, apiVars, wizard>>
  \/ \E r \in Runs : cleanupOf(r) /\ UNCHANGED <<deployVars, apiVars, wizard>>
  \/ \E r \in Runs : nextRequestOf(r) /\ UNCHANGED <<deployVars, apiVars, wizard>>
  \/ Tick

SpecPool == Init /\ [][NextPool]_vars


(***************************************************************************)
(* Properties of the progress stream and the deployment run (Spec)         *)
(***************************************************************************)

Closed == pc = "done" /\ resp.status = 200
Succeeded == Closed /\ outcome = "resolved"
Failed == Closed /\ outcome # "resolved"
Ran(cmd, ok) == \E i \in 1..Len(execLog) : execLog[i].cmd = cmd /\ execLog[i].ok = ok
Attempted(cmd) == \E i \in 1..Len(execLog) : execLog[i].cmd = cmd
StepNames == [i \in 1..Len(steps) |-> steps[i].name]

\* C1: in a run whose every step succeeds, the progress values written are
\* non-decreasing, the last one is 100, and the completion sentinel follows
\* it as the last thing written.
C1_SuccessProgress ==
  Succeeded =>
    LET n == Len(stream)
    IN  /\ n >= 2
        /\ stream[n] = Sentinel("complete")
        /\ \A i \in 1..(n - 1) : stream[i].type = "progress"
        /\ \A i \in 1..(n - 2) : stream[i].progress <= stream[i + 1].progress
        /\ stream[n - 1].progress = 100

\* A successful run without a manifest whose bootstrap and cleanup both failed.
C1_Witness ==
  /\ Succeeded
  /\ ~Attempted("npm install")
  /\ Ran("sst bootstrap", FALSE)
  /\ Ran("rm -rf", FALSE)

\* C2: in a run in which a step fails, the last progress frame has progress
\* 0, the error sentinel follows it and closes the stream, and no frame of
\* the stream carries a deploymentUrl.
C2_FailureStream ==
  Failed =>
    LET n == Len(stream)
    IN  /\ n >= 2
        /\ stream[n] = Sentinel("error")
        /\ stream[n - 1].type = "progress"
        /\ stream[n - 1].progress = 0
        /\ \A i \in 1..n : stream[i].deploymentUrl = NoUrl

\* A failed run whose cleanup reported progress after the failure.
C2_Witness ==
  /\ Failed
  /\ Ran("sst deploy", FALSE)
  /\ Ran("rm -rf", TRUE)

\* C3: once the client has consumed a started stream to its end, it is in the
\* 'success' status exactly when the stream was closed by the completion
\* sentinel, and in the 'error' status when it was closed by the error
\* sentinel.
C3_ClientStatusFollowsSentinel ==
  (client.phase = "done" /\ resp.status = 200) =>
    /\ stream[Len(stream)].type = "complete" => client.status = "success"
    /\ stream[Len(stream)].type = "error" => client.status = "error"

\* C4: a sentinel is only ever the last frame of a stream (so there is at
\* most one and nothing follows it); a closed stream ends with one; it is
\* "complete" exactly when the run succeeded and "error" exactly when it
\* failed.
C4_OneSentinel ==
  /\ \A i \in 1..Len(stream) :
       stream[i].type # "progress" =>
         /\ i = Len(stream)
         /\ resp.ended
         /\ stream[i].type = "complete" <=> outcome = "resolved"
         /\ stream[i].type = "error" <=> outcome # "resolved"
  /\ Closed => /\ Len(stream) >= 1
               /\ stream[Len(stream)].type \in {"complete", "error"}

\* A stream closed by the error sentinel.
C4_Witness == Failed /\ stream[Len(stream)] = Sentinel("error")

\* The external commands the pipeline runs, cleanup's deletion apart.
PipelineCommands ==
  { PrereqChecks[i] : i \in 1..Len(PrereqChecks) } \cup
  { "git clone", "npm install", "npm install -g sst@latest", "sst bootstrap",
    "sst deploy" }

\* After the failure of execLog[i]: nothing but the deletion is run later, no
\* step but cleanup starts later, the run ends as failed, and the scratch
\* directory is not left behind without a deletion attempt.
AbortsAt(i) ==
  /\ \A j \in (i + 1)..Len(execLog) : execLog[j].cmd = "rm -rf"
  /\ \A k \in 1..Len(steps) :
       steps[k].name = execLog[i].step =>
         \A l \in (k + 1)..Len(steps) : steps[l].name = "cleanup"
  /\ outcome # "resolved"
  /\ pc = "done" => (Failed /\ (fs.exists => Attempted("rm -rf")))

\* C5 as claimed: the failure of any pipeline command, `sst bootstrap`
\* included, aborts the run.
C5_AnyFailureAborts ==
  \A i \in 1..Len(execLog) :
    (execLog[i].cmd \in PipelineCommands /\ ~execLog[i].ok) => AbortsAt(i)

\* C5 amended: the failure of any pipeline command other than `sst bootstrap`
\* aborts the run (no later step, run failed, deletion of an existing scratch
\* directory attempted); a failed `sst bootstrap` is followed by `sst deploy`.
C5_FailureAborts ==
  \A i \in 1..Len(execLog) :
    /\ (execLog[i].cmd \in PipelineCommands \ {"sst bootstrap"} /\ ~execLog[i].ok)
         => AbortsAt(i)
    /\ execLog[i].cmd = "sst bootstrap"
         => (i < Len(execLog) /\ execLog[i + 1].cmd = "sst deploy")

\* A run aborted by a failing install that left the clone for cleanup to
\* delete.
C5_Witness ==
  /\ Failed
  /\ Ran("npm install -g sst@latest", FALSE)
  /\ Attempted("rm -rf")

PipelineOrder ==
  << "checkPrerequisites", "cloneRepository", "detectProjectType",
     "installDependencies", "addSSTConfig", "deployToAWS", "cleanup" >>

\* C6: the steps started are an initial part of the pipeline order, or an
\* initial part followed by cleanup (so none runs twice or out of order); a
\* run that succeeded ran all of them; and every step that is followed by
\* another wrote at least one frame before that one started.
C6_SequentialSteps ==
  /\ \E k \in 0..Len(PipelineOrder) :
       \/ StepNames = SubSeq(PipelineOrder, 1, k)
       \/ StepNames = Append(SubSeq(PipelineOrder, 1, k), "cleanup")
  /\ outcome = "resolved" => StepNames = PipelineOrder
  /\ \A i \in 1..(Len(steps) - 1) :
       /\ steps[i].at < steps[i].end
       /\ steps[i].end <= steps[i + 1].at

\* A run without a manifest that went through all seven steps.
C6_Witness ==
  /\ Succeeded
  /\ StepNames = PipelineOrder
  /\ ~Attempted("npm install")

\* C8: the sst.config.ts in the scratch directory is the file the generator
\* produces for the DeploymentConfig sent with the deploy request.
C8_DeployedConfigIsRequested ==
  fs.sstConfig # None => fs.sstConfig[1] = generateSSTConfig(req[1].config)

\* C9: a finished run whose `sst deploy` exited non-zero or printed no
\* SiteUrl marker is a failed run, and a deploymentUrl in a frame is always
\* the URL read from the marker.
C9_DeployFailureReported ==
  (Closed /\ Attempted("sst deploy")) =>
    /\ (deployOutput.exit # 0 \/ deployOutput.siteUrl = NoUrl) =>
         (outcome = "rejected" /\ stream[Len(stream)] = Sentinel("error"))
    /\ \A i \in 1..Len(stream) :
         stream[i].deploymentUrl # NoUrl => stream[i].deploymentUrl = deployOutput.siteUrl

(***************************************************************************)
(* Properties of the API handlers (SpecApi, SpecStore)                     *)
(***************************************************************************)

\* A request its endpoint would serve for the holder of a session: the method
\* the endpoint accepts, and the body it needs.
Servable(r) ==
  /\ r.endpoint \in {"generate-config", "generate-deploy-script", "deploy-direct"}
       => r.method = "POST"
  /\ r.endpoint = "generate-config" => r.body # None
  /\ r.endpoint = "generate-deploy-script" => r.body.repository # None

\* C7: a request without a valid session is answered 401 and nothing is done
\* for it: nothing generated, archived, stored or deployed.
C7_UnauthorizedRejected ==
  (apiReq # None /\ ~apiReq[1].session.present /\ Servable(apiReq[1])) =>
    (apiResp[1].status = 401 /\ work = {})

SavedFields == {"name", "repository", "config"}

\* C10: a listing answered to an account that has saved since the process
\* started contains the entry its last save returned, with the name,
\* repository and configuration that save sent.
C10_SaveThenList ==
  \A a \in Accounts :
    ( /\ apiReq # None
      /\ apiReq[1].endpoint = "configs"
      /\ apiReq[1].method = "GET"
      /\ apiReq[1].session.email = a
      /\ apiResp[1].status = 200
      /\ lastSave[a] # None ) =>
    LET sent     == lastSave[a][1].body
        returned == lastSave[a][1].response
        list     == apiResp[1].body
    IN  \E i \in 1..Len(list) :
          /\ \A f \in SavedFields : list[i][f] = sent[f]
          /\ list[i]["id"] = returned["id"]
          /\ list[i]["createdAt"] = returned["createdAt"]
          /\ list[i]["updatedAt"] = returned["updatedAt"]

\* An account lists after its second save, another account having saved too.
C10_Witness ==
  /\ apiReq # None
  /\ apiReq[1].endpoint = "configs"
  /\ apiReq[1].method = "GET"
  /\ apiResp[1].status = 200
  /\ \E a \in Accounts, b \in Accounts :
       /\ a # b
       /\ apiReq[1].session.email = a
       /\ Len(savedConfigs[a]) = 2
       /\ savedConfigs[a][1] # savedConfigs[a][2]
       /\ Len(savedConfigs[b]) = 1

\* C11: the store holds, for every account, exactly the entries that
\* account's own saves returned since the process started, in the order of
\* those saves, and a listing answered to an account is that sequence: no
\* save of another account adds to it, removes from it or changes it.
C11_OwnedLists ==
  /\ \A a \in Accounts : savedConfigs[a] = saveLog[a]
  /\ \A a \in Accounts :
       ( /\ apiReq # None
         /\ apiReq[1].endpoint = "configs"
         /\ apiReq[1].method = "GET"
         /\ apiReq[1].session.email = a
         /\ apiResp[1].status = 200 ) =>
       apiResp[1].body = saveLog[a]

\* An account with one save lists while another account has made two.
C11_Witness ==
  /\ apiReq # None
  /\ apiReq[1].endpoint = "configs"
  /\ apiReq[1].method = "GET"
  /\ apiResp[1].status = 200
  /\ \E a \in Accounts, b \in Accounts :
       /\ a # b
       /\ apiReq[1].session.email = a
       /\ Len(saveLog[a]) = 1
       /\ Len(saveLog[b]) = 2
       /\ apiResp[1].body = saveLog[a]

\* The run has classified the clone that is still on disk.
Classified ==
  /\ fs.exists
  /\ analysis # None
  /\ \E i \in 1..Len(steps) : steps[i].name = "detectProjectType"

ServerRenderingDeps == {"next", "nuxt", "@sveltejs/kit", "@remix-run/node"}

\* C12: a manifest that declares a server-rendering framework (next, nuxt,
\* @sveltejs/kit, @remix-run/node) is classified SSR, whatever else it
\* declares.
C12_ServerRenderedFirst ==
  ( /\ Classified
    /\ fs.manifest.kind = "json"
    /\ fs.manifest.deps \cap ServerRenderingDeps # {} ) =>
  analysis[1].type = "SSR"

\* The frames a step wrote.
FramesOf(i) == SubSeq(stream, steps[i].at + 1, steps[i].end)

\* C13: a clone without a package.json is classified STATIC with no build
\* command, and the installation step of that run invokes no command and
\* only reports that it was skipped.
C13_NoManifestIsStatic ==
  ( /\ Classified
    /\ fs.manifest.kind = "none" ) =>
  /\ analysis[1].type = "STATIC"
  /\ analysis[1].buildCommand = Undefined
  /\ \A i \in 1..Len(steps) :
       steps[i].name = "installDependencies" =>
         /\ Len(FramesOf(i)) = 1
         /\ FramesOf(i)[1].step = "Skipping dependencies"
         /\ \A j \in 1..Len(execLog) : execLog[j].step # "installDependencies"

\* A manifest-less clone has passed the installation step.
C13_Witness ==
  /\ Classified
  /\ fs.manifest.kind = "none"
  /\ pc = "addSSTConfig"
  /\ \E i \in 1..Len(steps) : steps[i].name = "installDependencies"

\* C14: a clone whose manifest declares no dependencies and no build script
\* is classified as type STATIC, framework "Static HTML", outputDir ".".
C14_EmptyManifestIsStaticHtml ==
  ( /\ Classified
    /\ fs.manifest.kind = "json"
    /\ fs.manifest.deps = {}
    /\ fs.manifest.build = Undefined ) =>
  /\ analysis[1].type = "STATIC"
  /\ analysis[1].framework = "Static HTML"
  /\ analysis[1].outputDir = "."

\* A configuration archive has been generated from a request's body.
Generated ==
  /\ apiReq # None
  /\ apiReq[1].endpoint = "generate-config"
  /\ apiReq[1].body # None
  /\ apiResp[1].status = 200

\* The sst.config.ts of the archive answered last.
SstConfigFile ==
  LET archive == apiResp[1].body
      i == CHOOSE j \in 1..Len(archive) : archive[j].name = "sst.config.ts"
  IN  archive[i].content

ServerSiteConstructs == {"NextjsSite", "SvelteKitSite", "RemixSite"}

\* C16: the construct instantiated is the one imported; it is a
\* server-rendered site construct exactly when projectType is SSR and
\* StaticSite for every other project type; under SSR the frameworks Next.js,
\* SvelteKit and Remix get their own construct.
C16_ConstructByType ==
  Generated =>
    LET config == apiReq[1].body[1]
        file == SstConfigFile
    IN  /\ file.importConstruct = file.construct
        /\ (file.construct \in ServerSiteConstructs) <=> config.projectType = "SSR"
        /\ config.projectType # "SSR" => file.construct = "StaticSite"
        /\ config.projectType = "SSR" =>
             /\ config.framework = "Next.js" => file.construct = "NextjsSite"
             /\ config.framework = "SvelteKit" => file.construct = "SvelteKitSite"
             /\ config.framework = "Remix" => file.construct = "RemixSite"

\* A server-rendered Remix project has been rendered.
C16_Witness ==
  /\ Generated
  /\ apiReq[1].body[1].projectType = "SSR"
  /\ apiReq[1].body[1].framework = "Remix"
  /\ SstConfigFile.construct = "RemixSite"
  /\ SstConfigFile.importConstruct = "RemixSite"

\* An analysis request with a valid session has been answered.
Analyzed ==
  /\ apiReq # None
  /\ apiReq[1].endpoint = "analyze"
  /\ upstream # None

\* The language model answered that request with a text.
ModelAnswered ==
  /\ Analyzed
  /\ upstream[1].submitted # None
  /\ upstream[1].reply.kind = "text"

ObjectsIn(text) == {i \in 1..Len(text) : text[i].kind = "object"}

RequiredFieldsPresent(o) ==
  /\ o.type # Undefined
  /\ o.framework # Undefined
  /\ o.outputDir # Undefined
  /\ o.dependencies # None

\* C17: a response text holding one JSON object with all of type, framework,
\* outputDir and dependencies, whatever text surrounds the object, is
\* answered with the classification of that object; a text without a JSON
\* object, or whose object lacks one of those fields, is answered with an
\* error.
C17_ParseOrFail ==
  ModelAnswered =>
    LET text == upstream[1].reply.text
        objects == ObjectsIn(text)
    IN  /\ ( /\ Cardinality(objects) = 1
             /\ \A i \in objects : /\ RequiredFieldsPresent(text[i].object[1])
                                   /\ text[i].object[1].type \in {"SSR", "CSR", "STATIC"} ) =>
             /\ apiResp[1].status = 200
             /\ \A i \in objects : /\ apiResp[1].body.type = text[i].object[1].type
                                   /\ apiResp[1].body.framework = text[i].object[1].framework
        /\ objects = {} => apiResp[1].status = 500
        /\ ( /\ Cardinality(objects) = 1
             /\ \A i \in objects : ~RequiredFieldsPresent(text[i].object[1]) ) =>
             apiResp[1].status = 500

\* C18: the classification of every analysis answered with success is SSR,
\* CSR or STATIC.
C18_ClosedTypeSet ==
  (Analyzed /\ apiResp[1].status = 200) =>
    apiResp[1].body.type \in {"SSR", "CSR", "STATIC"}

\* C20: a fetch the source-control host fails (network, auth, not-found)
\* yields null content or an empty listing and no exception, and the
\* repository description, however empty, is submitted to the language
\* model: with a well-formed answer of the model the analysis succeeds
\* whatever the host failed.
C20_HostFailuresAreEmptyResults ==
  Analyzed =>
    LET host == upstream[1].host
    IN  /\ ~getFileContent(host.packageJson).threw
        /\ ~getFileContent(host.config).threw
        /\ ~getDirectoryContents(host.root).threw
        /\ ~getDirectoryContents(host.src).threw
        /\ upstream[1].submitted # None
        /\ "analyze" \in work
        /\ host.packageJson.kind \in HostFailures =>
             upstream[1].submitted[1].packageJson = "None found"
        /\ host.root.kind \in HostFailures =>
             /\ upstream[1].submitted[1].rootFiles = {}
             /\ DOMAIN upstream[1].submitted[1].configFiles = {}
        /\ host.src.kind \in HostFailures => upstream[1].submitted[1].srcFiles = {}
        /\ upstream[1].reply = ModelAnswers("text", <<Object(FullObject)>>) =>
             apiResp[1].status = 200

\* Every fetch of an analysis failed, and the analysis was answered from the
\* model's classification of the empty description.
C20_Witness ==
  /\ Analyzed
  /\ upstream[1].host.packageJson.kind = "network"
  /\ upstream[1].host.root.kind = "auth"
  /\ upstream[1].host.src.kind = "not-found"
  /\ upstream[1].submitted # None
  /\ upstream[1].submitted[1].rootFiles = {}
  /\ apiResp[1].status = 200

\* The parts of the messages written to the stream.
MessageParts ==
  UNION { {stream[i].message[k] : k \in 1..Len(stream[i].message)} :
            i \in 1..Len(stream) }

\* C19: no message written to the progress stream carries text of the error
\* of a failed external command: the frames of two runs that fail at the
\* same command for different reasons are the same.
C19_GenericMessages == MessageParts \cap CommandErrors = {}

(***************************************************************************)
(* Properties of the wizard (SpecWizard)                                   *)
(***************************************************************************)

RequestFailed(reply) == reply.failed \/ reply.status # 200
After(name) == wizard.last.event = name
ErrorPanelShown == wizard.currentStep = "repos" /\ wizard.selector.error # None

\* C21: a failed repository listing or a failed analysis request, the
\* analysis endpoint's non-200 error bodies included, shows an error that
\* asks to try again and leaves the wizard where it was: the step does not
\* become 'questions', the error body is not kept as the analysis, and no
\* configuration is built from it.
C21_WizardFailuresDoNotAdvance ==
  /\ After("fetchRepositories") /\ RequestFailed(wizard.last.input[1])
       => ErrorPanelShown
  /\ After("analyzeRepository") /\ RequestFailed(wizard.last.input[1].reply)
       => /\ wizard.last.input[1].alert # None
          /\ wizard.currentStep = wizard.last.input[1].before
          /\ wizard.analysis # Some(wizard.last.input[1].reply.body)
  /\ After("handleSubmit") /\ wizard.finalConfig # None
       => "error" \notin DOMAIN wizard.last.input[1].analysis[1]

(***************************************************************************)
(* Properties of runs side by side (SpecPool)                              *)
(***************************************************************************)

\* a run holds its scratch directory from cloneRepository to the end of cleanup
Holding(r) == pool.runs[r].tempDir # NoTempDir /\ pool.runs[r].pc # "done"

\* C22: two deployment runs that overlap in time use distinct scratch
\* directories.
C22_DistinctScratchDirs ==
  \A r1, r2 \in Runs :
    r1 # r2 /\ Holding(r1) /\ Holding(r2)
      => pool.runs[r1].tempDir # pool.runs[r2].tempDir

\* C23: once the bot has written its 'Deployment failed' frame, every frame
\* written after it is a progress-0 frame or the error sentinel: no frame
\* with progress above 0, and none with 100, follows the failure.
C23_NoProgressAfterFailure ==
  \A i, j \in 1..Len(stream) :
    /\ i < j
    /\ stream[i].type = "progress"
    /\ stream[i].step = "Deployment failed"
    => \/ stream[j].type = "error"
       \/ stream[j].type = "progress" /\ stream[j].progress = 0

(***************************************************************************)
(* Termination of a deployment request (SpecLive)                          *)
(***************************************************************************)

Authorized == req # None /\ req[1].method = "POST" /\ req[1].session
SentinelLast ==
  Len(stream) > 0 /\ stream[Len(stream)].type \in {"complete", "error"}
Refused == resp.status = 500 /\ stream = <<>>

\* C24 as stated: the response of an authorized POST to deploy-direct, once
\* it has ended, has ended after a sentinel.
C24_ClosesWithSentinel ==
  Authorized /\ pc = "done" => resp.ended /\ SentinelLast

\* C24: every authorized POST to deploy-direct eventually ends its response,
\* each external process terminating: a stream that was opened ends after a
\* sentinel, and a request whose body is null is answered 500 with no stream.
C24_EveryRequestCloses ==
  (Authorized /\ pc = "handler")
    ~> (pc = "done" /\ resp.ended /\ (SentinelLast \/ Refused))

\* An authorized request has ended after `sst deploy` and then the removal
\* of the scratch directory failed.
C24_Witness ==
  /\ Authorized /\ pc = "done" /\ resp.ended /\ SentinelLast
  /\ Ran("sst deploy", FALSE)
  /\ Ran("rm -rf", FALSE)

(***************************************************************************)
(* The configuration the wizard builds (SpecWizard)                        *)
(***************************************************************************)

Submitted == After("handleSubmit") /\ wizard.currentStep = "result"
Answers == wizard.last.input[1].form

\* C25: 'worldwide' gives region 'us-east-1' whatever region was selected and
\* 'single' gives the selected region; the merged configuration carries the
\* user's answers (region, customDomain, userDistribution), and takes
\* projectName from the selected repository and framework, projectType,
\* buildCommand and outputDir from the analysis.
C25_AnswersAndAnalysisMerged ==
  Submitted =>
    LET config == wizard.finalConfig[1]
        repo == wizard.last.input[1].repo[1]
        result == wizard.last.input[1].analysis[1]
    IN  /\ Answers.userDistribution = "worldwide" => config.region = "us-east-1"
        /\ Answers.userDistribution = "single" => config.region = Answers.region
        /\ config.userDistribution = Answers.userDistribution
        /\ config.customDomain.enabled = Answers.customDomain
        /\ Answers.customDomain => config.customDomain.domain = Answers.domain
        /\ config.projectName = repo.name
        /\ config.framework = Get(result, "framework")
        /\ config.projectType = Get(result, "type")
        /\ config.buildCommand = Get(result, "buildCommand")
        /\ config.outputDir = Get(result, "outputDir")

\* 'worldwide' was chosen after another region had been selected, for the
\* repository "site" analyzed as a server-rendered project.
C25_Witness ==
  /\ Submitted
  /\ Answers.userDistribution = "worldwide"
  /\ Answers.region = "eu-west-1"
  /\ Answers.customDomain
  /\ wizard.finalConfig[1].region = "us-east-1"
  /\ wizard.finalConfig[1].projectName = "site"
  /\ wizard.finalConfig[1].projectType = "SSR"

ConfigShown == wizard.currentStep = "result" /\ wizard.finalConfig # None
FormShown == wizard.currentStep = "questions" /\ wizard.selectedRepo # None

\* C26: whenever the result step shows a configuration, selectedRepo,
\* analysis and finalConfig are set and finalConfig.projectName is the
\* selected repository's name; whenever the questions form is shown,
\* selectedRepo is set; and resetFlow leaves the step 'repos' with
\* selectedRepo, analysis and finalConfig cleared.
C26_WizardStateConsistent ==
  /\ ConfigShown =>
       /\ wizard.selectedRepo # None
       /\ wizard.analysis # None
       /\ wizard.finalConfig[1].projectName = wizard.selectedRepo[1].name
  /\ FormShown => wizard.selectedRepo # None
  /\ After("resetFlow") =>
       /\ wizard.currentStep = "repos"
       /\ wizard.selectedRepo = None
       /\ wizard.analysis = None
       /\ wizard.finalConfig = None

\* The flow was reset while an analysis was still in flight.
C26_Witness ==
  /\ After("resetFlow")
  /\ wizard.currentStep = "repos"
  /\ wizard.finalConfig = None
  /\ Len(wizard.pending) = 1

(***************************************************************************)
(* Absent optional fields and the archives (SpecApi)                       *)
(***************************************************************************)

\* C27: the emitted sst.config.ts interpolates no missing value, for all
\* three project types: it has a buildCommand line only when the input has a
\* buildCommand other than 'null', and a domainName only when the input has
\* a domain.
C27_NoMissingValueInterpolated ==
  Generated =>
    LET config == apiReq[1].body[1]
        file == SstConfigFile
    IN  /\ file.buildCommand # Absent
             => Truthy(config.buildCommand) /\ config.buildCommand # "null"
        /\ file.domainName # Absent => Truthy(config.customDomain.domain)
        /\ file.buildCommand # "undefined"
        /\ file.domainName # "undefined"

Packaged ==
  /\ apiReq # None
  /\ apiReq[1].endpoint = "generate-deploy-script"
  /\ apiResp[1].status = 200

\* C28: the deploy-package archive holds sst.config.ts, package.json,
\* deploy.sh and README.md, each file name at most once.
C28_ArchiveNamesUnique ==
  Packaged =>
    LET archive == apiResp[1].body
    IN  /\ {archive[i].name : i \in 1..Len(archive)}
             = {"sst.config.ts", "package.json", "deploy.sh", "README.md"}
        /\ \A i, j \in 1..Len(archive) : archive[i].name = archive[j].name => i = j

(***************************************************************************)
(* The saved-configuration store (SpecStore)                               *)
(***************************************************************************)

DistinctIds(list) ==
  \A i, j \in 1..Len(list) : i # j => list[i]["id"] # list[j]["id"]
\* the id and the timestamps are those of the clock reading of the save
ServerAssigned(entry) ==
  /\ entry["createdAt"] \in {ISOString(t) : t \in 0..now}
  /\ entry["updatedAt"] = entry["createdAt"]
  /\ entry["id"] = DateString(entry["createdAt"][2])

\* C29: the entries saved for one account have pairwise distinct ids,
\* whatever the request bodies and however close in time the saves, and the
\* id, createdAt and updatedAt of an entry are the server's, not the body's.
C29_DistinctServerIds ==
  \A a \in Accounts :
    /\ DistinctIds(savedConfigs[a])
    /\ \A i \in 1..Len(savedConfigs[a]) : ServerAssigned(savedConfigs[a][i])

\* the step answered a POST of account a with a new entry
SavedBy(a) == Len(saveLog'[a]) = Len(saveLog[a]) + 1

\* C30: a request changes the store only by appending: a POST appends
\* exactly one entry, the one it answers, at the end of the requester's list
\* and leaves every other entry of every account as it was; a GET, another
\* method (405) and an unauthorized request (401) leave the store unchanged.
\* (The store is emptied when the process restarts, which is not a request.)
C30_StoreOnlyAppends ==
  [][ apiReq' # None =>
        \A a \in Accounts :
          IF SavedBy(a)
            THEN /\ apiReq'[1].method = "POST"
                 /\ apiReq'[1].session.email = a
                 /\ savedConfigs'[a] = Append(savedConfigs[a], apiResp'[1].body)
          ELSE savedConfigs'[a] = savedConfigs[a] ]_vars

\* One account has saved twice and the other once, the last request a POST.
C30_Witness ==
  /\ apiReq # None
  /\ apiReq[1].method = "POST"
  /\ apiResp[1].status = 200
  /\ \E a, b \in Accounts :
       /\ a # b
       /\ Len(savedConfigs[a]) = 2
       /\ Len(savedConfigs[b]) = 1
       /\ savedConfigs[a][2] = apiResp[1].body

====
